---- MODULE Spec2Model ----
(***************************************************************************)
(* NBA MVP prediction pipeline: the season split policy                    *)
(* (NBA_modules.split_train_val_seasons), the row masks of training        *)
(* (train_mvp_model), the ranking/inference engine (predict_the_mvp), the  *)
(* winner-rank analysis of evaluation (display_mvp_predictions,            *)
(* analyze_season), and the three preprocessing stages: the merge of the   *)
(* scraped tables (main_dataframe), the cleaning (clean_data) and the      *)
(* feature engineering (engineering).  Two further specifications cover    *)
(* the files the stages write (the date-suffixed output names) and the     *)
(* three preprocessing stages run one after the other on the same data.    *)
(*                                                                         *)
(* Numbers.  Predicted scores are integers in tenths (8 stands for 0.8).   *)
(* Percentages are integers in hundredths of a percent (6154 stands for    *)
(* 61.54), so "rounded to 2 decimals" is rounding to an integer here.      *)
(* pandas ranks are kept doubled (3 stands for rank 1.5), so the average   *)
(* rank of a tie group is an integer here.  Arithmetic is exact: binary    *)
(* floating point error is not modelled.                                   *)
(***************************************************************************)
EXTENDS Integers, Sequences, FiniteSets, TLC

\* --------------------------------------------------------------- variables
VARIABLES
    csv_seasons,     \* the season_year column of the engineered CSV, row by row
    csv_readable,    \* whether read_csv and the column lookup succeed
    tpc,             \* position in train_mvp_model
    val_seasons,     \* first value returned by split_train_val_seasons
    train_seasons,   \* second value returned by split_train_val_seasons
    train_mask,      \* data['season_year'].isin(train_seasons)
    val_mask         \* data['season_year'].isin(val_seasons)

VARIABLES
    dataframe,       \* the caller's feature table: rows of season_year and features
    given,           \* the table as the caller first passed it (history)
    season,          \* the season argument
    top_n,           \* the top_n argument
    sort_memo,       \* what this build's sort made of the frame it last sorted
    ppc,             \* position in predict_the_mvp
    season_data,     \* the local season_data frame
    top_players,     \* the local top_players frame
    returned,        \* what the last completed call returned
    first_returned,  \* what the first completed call returned
    calls            \* completed calls

VARIABLES
    data,            \* the evaluation table: rows of season_year, features, is_MVP
    epc,             \* position in main / display_mvp_predictions
    eval_seasons,    \* val_seasons[-10:]
    season_ix,       \* the loop index into eval_seasons
    analysed,        \* what analyze_season printed, season by season
    ranks,           \* the ranks list of display_mvp_predictions, doubled
    average          \* the printed average rank, in hundredths

VARIABLES
    clean_rows,      \* the rows of the cleaned CSV engineering is given
    clean_readable,  \* whether read_csv of the cleaned CSV succeeds
    fpc,             \* position in engineering
    df_final,        \* the local df_final frame: its rows
    df_columns,      \* the columns of df_final, in order
    engineered       \* the engineered CSV once written

VARIABLES
    main_rows,       \* the rows of the merged CSV clean_data is given
    main_readable,   \* whether read_csv of the merged CSV succeeds
    season_mvp,      \* the winner's name the scraper found, season by season
    cpc,             \* position in clean_data
    clean_df,        \* the local df frame of clean_data: its rows
    cleaned          \* the rows of the cleaned CSV once written

VARIABLES
    totals_csv,      \* the rows of the player totals CSV
    standings_csv,   \* the rows of the team standings CSV
    advanced_csv,    \* the rows of the advanced statistics CSV
    inputs_readable, \* whether read_csv of the three files succeeds
    mpc,             \* position in main_dataframe
    df_ranking,      \* the standings with team mapped to its abbreviation
    df_augmented,    \* the totals merged with the standings
    df_merged,       \* the local df_final frame of main_dataframe
    main_saved,      \* the rows of the merged CSV once written
    main_printed     \* whether the success message has been printed

VARIABLES
    clock,           \* datetime.today(): the day and the time of the day
    output_dir,      \* the files of the output directory: name -> content
    written          \* the runs so far: stage, instant, file and content

splitVars == <<csv_seasons, csv_readable, tpc, val_seasons, train_seasons,
               train_mask, val_mask>>

predictVars == <<dataframe, given, season, top_n, sort_memo, ppc, season_data,
                 top_players, returned, first_returned, calls>>

evalVars == <<data, epc, eval_seasons, season_ix, analysed, ranks, average>>

engineerVars == <<clean_rows, clean_readable, fpc, df_final, df_columns,
                  engineered>>

cleanVars == <<main_rows, main_readable, season_mvp, cpc, clean_df, cleaned>>

mergeVars == <<totals_csv, standings_csv, advanced_csv, inputs_readable, mpc,
              df_ranking, df_augmented, df_merged, main_saved, main_printed>>

artifactVars == <<clock, output_dir, written>>

vars == <<splitVars, predictVars, evalVars, engineerVars, cleanVars, mergeVars,
          artifactVars>>

\* What each component leaves alone.
notSplit == <<predictVars, evalVars, engineerVars, cleanVars,
    mergeVars, artifactVars>>
notPredict == <<splitVars, evalVars, engineerVars, cleanVars,
    mergeVars, artifactVars>>
notEval == <<splitVars, predictVars, engineerVars, cleanVars,
    mergeVars, artifactVars>>
notEngineer == <<splitVars, predictVars, evalVars, cleanVars,
    mergeVars, artifactVars>>
notClean == <<splitVars, predictVars, evalVars, engineerVars, mergeVars,
    artifactVars>>
notMerge == <<splitVars, predictVars, evalVars, engineerVars, cleanVars,
    artifactVars>>
notArtifact == <<splitVars, predictVars, evalVars, engineerVars, cleanVars,
    mergeVars>>

\* ------------------------------------------------------------------ bounds
\* Rows of a table (feature table, evaluation table).
MaxRows == 3
\* Largest top_n a caller passes to predict_the_mvp.
MaxTopN == 3
\* The season_year values a row of a bounded table can carry.
LoSeason == 2020
HiSeason == 2025
\* Rows of a cleaned table that varies team standings.
MaxStandingRows == 3
\* Rows of a cleaned table that varies the per-game averages.
MaxAverageRows == 1
\* Largest win_pct of a bounded table, in tenths.
MaxWinPct == 2
\* Largest game_played of a bounded table.
MaxGames == 2
\* Largest counting statistic of a bounded table.
MaxStat == 2
\* Rows of a merged table that varies the shooting cells.
MaxShootingRows == 2
\* The attempts of a row that has some.
MaxAttempts == 5
\* Rows of the bounded totals, standings and advanced tables.
MaxTotalsRows == 2
MaxStandingsRows == 2
MaxAdvancedRows == 2
\* The days and the instants of a day the clock goes through, the runs of a
\* stage sequence and the contents a run can write.
MaxDays == 2
MaxTimes == 2
MaxRuns == 2
MaxContents == 2
\* The rows added to the roster in the tables that vary the positions.
MaxAddedRows == 2
\* The rows of the roster whose season and standings columns vary.
MaxContextRows == 2
\* The rows of the roster whose team varies in the pipeline.
MaxPipelineRows == 2

\* --------------------------------------------------------------- utilities
Range(s) == {s[i] : i \in DOMAIN s}

Min(S) == CHOOSE m \in S : \A o \in S : m <= o

RECURSIVE SortedList(_)
\* sorted(list(S)) for a set S of integers: ascending, no repetition.
SortedList(S) ==
    IF S = {} THEN <<>> ELSE <<Min(S)>> \o SortedList(S \ {Min(S)})

RECURSIVE SumSeq(_)
SumSeq(s) == IF s = <<>> THEN 0 ELSE s[1] + SumSeq(Tail(s))

Head_n(s, n) == SubSeq(s, 1, IF n < Len(s) THEN n ELSE Len(s))

Abs(n) == IF n < 0 THEN -n ELSE n

SeqsUpTo(S, n) == UNION {[1..k -> S] : k \in 0..n}

Seasons == LoSeason..HiSeason

\* ------------------------------------------------------------ split policy
\* val_set of split_train_val_seasons: the fixed validation season-start years.
val_set == {2023, 2021, 2019, 2017, 2015, 2013, 2011, 2009, 2007, 2005}

\* The most recent season, kept out of both sets.
HeldOutSeason == 2024

\* seasons = set(map(int, data["season_year"].unique()))
AvailableSeasons(column) == Range(column)

split_train_val_seasons_no_2024(column) ==
    [val   |-> SortedList(val_set),
     train |-> SortedList(AvailableSeasons(column) \ val_set)]

\* The body of split_train_val_seasons after the file is read.
split_train_val_seasons(column) ==
    [val   |-> SortedList(val_set),
     train |-> SortedList((AvailableSeasons(column) \ val_set) \ {HeldOutSeason})]

\* Series.isin(values): one boolean per row.
isin(column, values) == [i \in DOMAIN column |-> column[i] \in Range(values)]

InitSplit ==
    /\ csv_seasons \in SeqsUpTo(Seasons, MaxRows)
    /\ csv_readable \in BOOLEAN
    /\ tpc = "load"
    /\ val_seasons = <<>>
    /\ train_seasons = <<>>
    /\ train_mask = <<>>
    /\ val_mask = <<>>

\* train_mvp_model line 53: the split returns its two sorted lists.
SplitSeasons ==
    /\ tpc = "load"
    /\ csv_readable
    /\ val_seasons' = split_train_val_seasons(csv_seasons).val
    /\ train_seasons' = split_train_val_seasons(csv_seasons).train
    /\ tpc' = "split"
    /\ UNCHANGED <<csv_seasons, csv_readable, train_mask, val_mask>>
    /\ UNCHANGED notSplit

\* split_train_val_seasons lines 47-49: the error is printed and re-raised.
SplitRaises ==
    /\ tpc = "load"
    /\ ~csv_readable
    /\ tpc' = "raised"
    /\ UNCHANGED <<csv_seasons, csv_readable, val_seasons, train_seasons,
                   train_mask, val_mask>>
    /\ UNCHANGED notSplit

\* train_mvp_model lines 56-57: the row masks.
BuildMasks ==
    /\ tpc = "split"
    /\ train_mask' = isin(csv_seasons, train_seasons)
    /\ val_mask' = isin(csv_seasons, val_seasons)
    /\ tpc' = "masked"
    /\ UNCHANGED <<csv_seasons, csv_readable, val_seasons, train_seasons>>
    /\ UNCHANGED notSplit

NextSplit ==
    \/ SplitSeasons
    \/ SplitRaises
    \/ BuildMasks

\* ------------------------------------------------- ranking / inference engine
\* Calls the caller makes in a row with the same arguments.
MaxCalls == 2

\* Seasons of the rows of the feature table, and seasons a caller asks for.
FeatureSeasons == {HeldOutSeason - 1, HeldOutSeason}
AskedSeasons == {HeldOutSeason, HeldOutSeason + 1}

\* The fitted regressor, an external collaborator: a fixed function from a
\* row's feature vector (x) to its score, in tenths.
fitted == <<-5, 0, 1, 5, 8>>
FeatureVectors == DOMAIN fitted

\* model.predict on one row
predict(x) == fitted[x]

Permutations_of(n) ==
    {f \in [1..n -> 1..n] : \A i, j \in 1..n : f[i] = f[j] => i = j}

\* dataframe[dataframe['season_year'] == season].copy(): the matching rows in
\* table order, each under its index label.
season_rows_any_season(df, yr) == [i \in DOMAIN df |-> [idx |-> i]]

season_rows(df, yr) ==
    LET keep == {i \in DOMAIN df : df[i].season_year = yr}
        labels == SortedList(keep)
    IN  [k \in DOMAIN labels |-> [idx |-> labels[k]]]

\* season_data['predicted_score'] = model.predict(season_data[features])
with_scores(df, rows) ==
    [k \in DOMAIN rows |->
        [idx |-> rows[k].idx, predicted_score |-> predict(df[rows[k].idx].x)]]

\* Whether row p comes before row q in the order sort_values produces:
\* larger key first; rows of equal key in the order the build's sort leaves
\* them (kind='quicksort' promises none).
comes_before(rows, tie, p, q) ==
    \/ rows[p].predicted_score > rows[q].predicted_score
    \/ /\ rows[p].predicted_score = rows[q].predicted_score
       /\ tie[p] < tie[q]

comes_before_ascending(rows, tie, p, q) ==
    \/ rows[p].predicted_score < rows[q].predicted_score
    \/ /\ rows[p].predicted_score = rows[q].predicted_score
       /\ tie[p] < tie[q]

sort_order(rows, tie, p, q) == comes_before(rows, tie, p, q)

\* season_data.sort_values(by='predicted_score', ascending=False)
sort_values(rows, tie) ==
    LET n == Len(rows)
        place(p) == 1 + Cardinality({q \in 1..n : sort_order(rows, tie, q, p)})
    IN  [k \in 1..n |-> rows[CHOOSE p \in 1..n : place(p) = k]]

\* Every frame the sort may produce from rows: pandas' default kind, quicksort,
\* is not a stable sort, so rows of equal key may come out in any order.  The
\* sort is a deterministic algorithm: the same frame is sorted the same way
\* every time (sort_memo).
sort_results(rows) ==
    {sort_values(rows, tie) : tie \in Permutations_of(Len(rows))}

NothingSorted == [input |-> <<>>, output |-> <<>>]

\* The caller's table after the call: predict_the_mvp works on a copy.
table_sorted_in_place(df, rows) ==
    LET labels == SortedList({rows[k].idx : k \in DOMAIN rows})
        slot(i) == CHOOSE k \in DOMAIN labels : labels[k] = i
    IN  [i \in DOMAIN df |->
            IF i \in Range(labels) THEN df[rows[slot(i)].idx] ELSE df[i]]

caller_table(df, rows) == df

\* A float: a number (v, in hundredths of a percent), or inf / -inf / nan.
Num(v) == [kind |-> "num", v |-> v]
NaN == [kind |-> "nan", v |-> 0]
Inf(sign) == [kind |-> IF sign > 0 THEN "inf" ELSE "-inf", v |-> 0]
\* The exact quotient n / d of two integers, d # 0.
Frac(n, d) == [kind |-> "frac", n |-> n, d |-> d]

\* round half to even of n / d, d # 0 (numpy's round)
round_half_even(n, d) ==
    LET nn == IF d > 0 THEN n ELSE -n
        dd == Abs(d)
        q == nn \div dd
        r == nn - q * dd
    IN  IF 2 * r < dd THEN q
        ELSE IF 2 * r > dd THEN q + 1
        ELSE IF q % 2 = 0 THEN q ELSE q + 1

round_down(n, d) == IF d > 0 THEN n \div d ELSE (-n) \div (-d)

round_2(n, d) == round_half_even(n, d)

\* (score / total * 100).round(2) in numpy: division by zero gives inf or nan
\* (with a warning), never an exception.
percentage(score, total) ==
    IF total # 0 THEN Num(round_2(score * 10000, total))
    ELSE IF score = 0 THEN NaN
    ELSE Inf(score)

total_of(rows, top) == SumSeq([k \in DOMAIN rows |-> rows[k].predicted_score])

\* total_top_scores = np.sum(top_scores)
total_top_scores(rows, top) ==
    SumSeq([k \in DOMAIN top |-> top[k].predicted_score])

\* lines 41-46: head(top_n) with its predicted_probability column
normalise(rows, n) ==
    LET top == Head_n(rows, n)
    IN  [k \in DOMAIN top |->
            [idx |-> top[k].idx,
             predicted_score |-> top[k].predicted_score,
             predicted_probability |->
                 percentage(top[k].predicted_score, total_top_scores(rows, top))]]

FeatureRows == [season_year : FeatureSeasons, x : FeatureVectors]

InitPredict ==
    /\ dataframe \in SeqsUpTo(FeatureRows, MaxRows)
    /\ given = dataframe
    /\ season \in AskedSeasons
    /\ top_n \in 1..MaxTopN
    /\ sort_memo = NothingSorted
    /\ ppc = "call"
    /\ season_data = <<>>
    /\ top_players = <<>>
    /\ returned = <<>>
    /\ first_returned = <<>>
    /\ calls = 0

\* lines 29-32: no row of the season: ValueError
PredictRaises ==
    /\ ppc = "call"
    /\ season_rows(dataframe, season) = <<>>
    /\ season_data' = season_rows(dataframe, season)
    /\ ppc' = "raised"
    /\ UNCHANGED <<dataframe, given, season, top_n, sort_memo, top_players,
                   returned, first_returned, calls>>
    /\ UNCHANGED notPredict

\* lines 29-32: the season has rows
PredictFilter ==
    /\ ppc = "call"
    /\ season_rows(dataframe, season) # <<>>
    /\ season_data' = season_rows(dataframe, season)
    /\ ppc' = "filtered"
    /\ UNCHANGED <<dataframe, given, season, top_n, sort_memo, top_players,
                   returned, first_returned, calls>>
    /\ UNCHANGED notPredict

\* line 35
PredictScore ==
    /\ ppc = "filtered"
    /\ season_data' = with_scores(dataframe, season_data)
    /\ ppc' = "scored"
    /\ UNCHANGED <<dataframe, given, season, top_n, sort_memo, top_players,
                   returned, first_returned, calls>>
    /\ UNCHANGED notPredict

\* line 38
PredictRank ==
    /\ ppc = "scored"
    /\ \E out \in sort_results(season_data) :
          /\ sort_memo.input = season_data => out = sort_memo.output
          /\ season_data' = out
          /\ sort_memo' = [input |-> season_data, output |-> out]
    /\ dataframe' = caller_table(dataframe, season_data')
    /\ ppc' = "ranked"
    /\ UNCHANGED <<given, season, top_n, top_players, returned,
                   first_returned, calls>>
    /\ UNCHANGED notPredict

\* lines 41-46; lines 48-51 then print the rows of top_players and change
\* nothing (display)
PredictNormalise ==
    /\ ppc = "ranked"
    /\ top_players' = normalise(season_data, top_n)
    /\ ppc' = "normalised"
    /\ UNCHANGED <<dataframe, given, season, top_n, sort_memo, season_data,
                   returned, first_returned, calls>>
    /\ UNCHANGED notPredict

\* line 53
PredictReturn ==
    /\ ppc = "normalised"
    /\ returned' = season_data
    /\ first_returned' = IF calls = 0 THEN season_data ELSE first_returned
    /\ calls' = calls + 1
    /\ ppc' = "returned"
    /\ UNCHANGED <<dataframe, given, season, top_n, sort_memo, season_data,
                   top_players>>
    /\ UNCHANGED notPredict

\* The caller calls again with the same model, season and table.
PredictAgain ==
    /\ ppc = "returned"
    /\ calls < MaxCalls
    /\ ppc' = "call"
    /\ season_data' = <<>>
    /\ top_players' = <<>>
    /\ UNCHANGED <<dataframe, given, season, top_n, sort_memo, returned,
                   first_returned, calls>>
    /\ UNCHANGED notPredict

NextPredict ==
    \/ PredictRaises
    \/ PredictFilter
    \/ PredictScore
    \/ PredictRank
    \/ PredictNormalise
    \/ PredictReturn
    \/ PredictAgain

\* ------------------------------------------------------ winner-rank analysis
\* Rows of one season in a bounded evaluation table.
MaxSeasonRows == 6

\* head(5) of analyze_season
TopCandidates == 5

\* val_seasons[-10:] of display_mvp_predictions
LastSeasons == 10

\* s[-n:]
last_n(s, n) == SubSeq(s, IF Len(s) > n THEN Len(s) - n + 1 ELSE 1, Len(s))

\* season_data[season_data['is_MVP'] == 1].index: the labels of the winner rows
mvp_labels(df, rows) ==
    LET labels == [j \in DOMAIN rows |-> rows[j].idx]
    IN  SelectSeq(labels, LAMBDA i : df[i].is_MVP = 1)

score_of(rows, label) ==
    rows[CHOOSE j \in DOMAIN rows : rows[j].idx = label].predicted_score

\* rows with a larger score than the row labelled label, and rows with the
\* same score (itself included)
n_greater(rows, label) ==
    Cardinality({j \in DOMAIN rows :
                    rows[j].predicted_score > score_of(rows, label)})
n_equal(rows, label) ==
    Cardinality({j \in DOMAIN rows :
                    rows[j].predicted_score = score_of(rows, label)})

\* Series.rank(ascending=False)[label], doubled.  The default method is
\* 'average': a row gets the mean of the positions its tie group occupies.
rank_descending(rows, label) ==
    2 * n_greater(rows, label) + n_equal(rows, label) + 1

\* int(actual_rank), from the doubled rank
int_of_rank(r2) == r2 \div 2

\* The scores of rows, largest first: the predicted_score column after
\* sort_values(ascending=False).
RECURSIVE scores_descending(_)
scores_descending(rows) ==
    IF rows = <<>> THEN <<>>
    ELSE LET top == CHOOSE j \in DOMAIN rows :
                        \A o \in DOMAIN rows :
                            rows[j].predicted_score >= rows[o].predicted_score
             others == [j \in 1..(Len(rows) - 1) |->
                            IF j < top THEN rows[j] ELSE rows[j + 1]]
         IN  <<rows[top].predicted_score>> \o scores_descending(others)

\* The places the winner's row can take in the sorted frame: anywhere in its
\* tie group, the sort being no stable one (see sort_results).
winner_places(rows, label) ==
    (n_greater(rows, label) + 1)..(n_greater(rows, label) + n_equal(rows, label))

\* analyze_season, for a season with at most one winner row: the lines printed
\* for the top 5 (score, trophy) and, when the season has a winner and no line
\* of the top 5 carries the trophy, the winner's printed rank.  place is where
\* the sort put the winner's row (0: the season has no winner row).
analyze_season(yr, rows, winners, place) ==
    LET scores == Head_n(scores_descending(rows), TopCandidates)
    IN  [season |-> yr,
         top |-> [j \in DOMAIN scores |->
                    [predicted_score |-> scores[j],
                     is_MVP |-> IF j = place THEN 1 ELSE 0]],
         printed_rank |->
            IF winners # <<>> /\ place > TopCandidates
            THEN <<int_of_rank(rank_descending(rows, winners[1]))>>
            ELSE <<>>]

\* One season of the evaluation table: rows of the first validation season
\* with at most one winner among them.
FocusSeason == Min(val_set)
EvalVectors == {4, 5}
FocusRows == [season_year : {FocusSeason}, x : EvalVectors, is_MVP : {0, 1}]
FocusTables ==
    {t \in SeqsUpTo(FocusRows, MaxSeasonRows) :
        Cardinality({i \in DOMAIN t : t[i].is_MVP = 1}) <= 1}

\* The rest of the table: nothing, a training season only, or a training
\* season and every other validation season, each with its winner.
TrainingRow == [season_year |-> FocusSeason + 1, x |-> 5, is_MVP |-> 1]
OtherValidationRows ==
    LET yrs == SortedList(val_set \ {FocusSeason})
    IN  [j \in DOMAIN yrs |-> [season_year |-> yrs[j], x |-> 5, is_MVP |-> 1]]
RestTables == {<<>>, <<TrainingRow>>, <<TrainingRow>> \o OtherValidationRows}

column(df) == [i \in DOMAIN df |-> df[i].season_year]

InitEval ==
    /\ \E focus \in FocusTables, rest \in RestTables : data = focus \o rest
    /\ epc = "main"
    /\ eval_seasons = <<>>
    /\ season_ix = 0
    /\ analysed = <<>>
    /\ ranks = <<>>
    /\ average = 0

\* main line 139 and display_mvp_predictions line 55
EvalSplit ==
    /\ epc = "main"
    /\ eval_seasons' = last_n(split_train_val_seasons(column(data)).val, LastSeasons)
    /\ season_ix' = 1
    /\ epc' = "analyse"
    /\ UNCHANGED <<data, analysed, ranks, average>>
    /\ UNCHANGED notEval

\* display_mvp_predictions lines 55-56: one turn of the first loop.  A season
\* with no row is analysed like any other (an empty frame is scored to an
\* empty column): nothing is printed for it and nothing raises here.
AnalyseSeason ==
    /\ epc = "analyse"
    /\ season_ix <= Len(eval_seasons)
    /\ LET yr == eval_seasons[season_ix]
           scored == with_scores(data, season_rows(data, yr))
           winners == mvp_labels(data, scored)
           places == IF winners = <<>> THEN {0}
                     ELSE winner_places(scored, winners[1])
       IN  \E place \in places :
              analysed' = Append(analysed, analyze_season(yr, scored, winners, place))
    /\ season_ix' = season_ix + 1
    /\ UNCHANGED <<data, epc, eval_seasons, ranks, average>>
    /\ UNCHANGED notEval

\* the first loop ends, the second begins
AnalyseDone ==
    /\ epc = "analyse"
    /\ season_ix > Len(eval_seasons)
    /\ season_ix' = 1
    /\ epc' = "rank"
    /\ UNCHANGED <<data, eval_seasons, analysed, ranks, average>>
    /\ UNCHANGED notEval

\* display_mvp_predictions lines 60-65: one turn of the second loop
RankSeason ==
    /\ epc = "rank"
    /\ season_ix <= Len(eval_seasons)
    /\ LET scored == with_scores(data, season_rows(data, eval_seasons[season_ix]))
           winners == mvp_labels(data, scored)
       IN  /\ winners # <<>>
           /\ ranks' = Append(ranks, rank_descending(scored, winners[1]))
    /\ season_ix' = season_ix + 1
    /\ UNCHANGED <<data, epc, eval_seasons, analysed, average>>
    /\ UNCHANGED notEval

\* line 64: actual_mvp.index[0] on a season with no winner row: IndexError
RankRaises ==
    /\ epc = "rank"
    /\ season_ix <= Len(eval_seasons)
    /\ mvp_labels(data, season_rows(data, eval_seasons[season_ix])) = <<>>
    /\ epc' = "raised"
    /\ UNCHANGED <<data, eval_seasons, season_ix, analysed, ranks, average>>
    /\ UNCHANGED notEval

\* lines 66-67: sum(ranks) / len(ranks), printed with two decimals
ReportAverage ==
    /\ epc = "rank"
    /\ season_ix > Len(eval_seasons)
    /\ average' = round_half_even(SumSeq(ranks) * 100, 2 * Len(ranks))
    /\ epc' = "reported"
    /\ UNCHANGED <<data, eval_seasons, season_ix, analysed, ranks>>
    /\ UNCHANGED notEval

NextEval ==
    \/ EvalSplit
    \/ AnalyseSeason
    \/ AnalyseDone
    \/ RankSeason
    \/ RankRaises
    \/ ReportAverage

\* ------------------------------------------------------------ column lists
\* names_cols of engineering and of clean_data
names_cols ==
    <<"player_name">>

\* player_info of clean_data
player_info_cleaned ==
    <<"position_C", "position_PF", "position_PG", "position_SF",
      "position_SG", "age", "conf", "win_pct", "game_played", "game_starter",
      "minutes_played">>

\* shooting_stats of engineering and of clean_data
shooting_stats ==
    <<"field_goal_made", "field_goal_attempts", "field_goal_percentage",
      "three_points_made", "three_points_attempts", "three_points_percentage",
      "two_points_made", "two_points_attempts", "two_points_percentage",
      "effective_fg_percentage", "free_throws_made", "free_throws_attempts",
      "free_throws_percentage">>

\* performance_stats of engineering and of clean_data
performance_stats ==
    <<"offensive_rebonds", "defensive_rebonds", "total_rebonds", "assists",
      "steals", "blocks", "turnovers", "personal_fouls", "total_points",
      "triple_double">>

\* advanced_stats of engineering and of clean_data
advanced_stats ==
    <<"efficiency_rating", "true_shooting_%", "3pt_attempt_rate",
      "FT_attempt_rate", "off_reb_%", "def_reb_%", "total_reb_%", "assist_%",
      "steal_%", "blk_%", "turnover_%", "usage_%", "off_win_shares",
      "def_win_shares", "total_win_shares", "ws_per_48", "off_box_+/-",
      "def_box_+/-", "box_+/-", "value_over_replacement">>

\* meta_cols of engineering and of clean_data
meta_cols ==
    <<"season_year", "is_MVP">>

\* The columns of the file clean_data saves: its reordered frame.
cleaned_columns ==
    names_cols \o player_info_cleaned \o shooting_stats \o performance_stats
        \o advanced_stats \o meta_cols

\* df[columns]: the cells of the listed columns.
select_cells(rows, columns) ==
    [i \in DOMAIN rows |->
        [c \in DOMAIN rows[i] \cap Range(columns) |-> rows[i][c]]]

\* -------------------------------------------------------------- clean_data
\* Cells.  player_name, team and position are strings; conf is the string
\* "E" or "W" as scraped; "" stands for a missing value of a string column.
\* The other cells are floats: Num(v), or NaN for a missing value.  win_pct
\* and the shooting percentages are integers in thousandths (400 stands for
\* 0.400); usage_% is read in thousandths of a percent (25345 stands for
\* 25.345) and rescaled to ten-thousandths (2534 stands for 0.2534).  The
\* rows carry the columns listed in MainColumns; the cells of the other
\* columns of the file are read by no step modelled here.
multiple_teams == <<"2TM", "3TM", "4TM", "5TM">>

\* The shooting statistics with an attempts and a percentage column.
ShootingStats == <<"field_goal", "three_points", "two_points", "free_throws">>

attempts_of(stat) == stat \o "_attempts"
percentage_of(stat) == stat \o "_percentage"

ShootingColumns ==
    {attempts_of(s) : s \in Range(ShootingStats)}
        \cup {percentage_of(s) : s \in Range(ShootingStats)}

MainColumns ==
    {"player_name", "position", "team", "conf", "win_pct", "usage_%",
     "season_year", "is_MVP"} \cup ShootingColumns

\* The columns of the frame that hold strings when the imputer runs.
TextColumns == {"player_name"}

\* 1 if season_mvp and x == season_mvp[0] else 0: the flag the scraper gives a
\* row, winner = "" standing for an empty season_mvp.
is_MVP_of(player_name, winner) ==
    IF winner # "" /\ player_name = winner THEN 1 ELSE 0

\* df.drop(df[df["player_name"] == "League Average"].index)
drop_league_average(rows) ==
    SelectSeq(rows, LAMBDA r : r["player_name"] # "League Average")

\* df.drop(df[df["team"].isin(multiple_teams)].index)
drop_multiple_teams(rows) ==
    SelectSeq(rows, LAMBDA r : r["team"] \notin Range(multiple_teams))

\* df.drop(columns=[c])
drop_column(rows, c) ==
    [i \in DOMAIN rows |-> [k \in DOMAIN rows[i] \ {c} |-> rows[i][k]]]

\* .map({"E": 0, "W": 1}): any other value becomes NaN
conf_code(conf) ==
    CASE conf = "E" -> Num(0)
      [] conf = "W" -> Num(1)
      [] OTHER -> NaN

map_conf(rows) ==
    [i \in DOMAIN rows |->
        [k \in DOMAIN rows[i] |->
            IF k = "conf" THEN conf_code(rows[i][k]) ELSE rows[i][k]]]

\* The position indicators the reordering names: the first five entries of
\* player_info.
position_indicators == SubSeq(player_info_cleaned, 1, 5)

\* ohc.fit: the categories are the distinct values of the column it is given,
\* a missing value being a category of its own.
fitted_categories(rows) == {rows[i]["position"] : i \in DOMAIN rows}

\* ohc.get_feature_names_out(['position']): the column of a category.
feature_name(category) ==
    "position_" \o (IF category = "" THEN "nan" ELSE category)

\* ohc.fit_transform, pd.concat and the drop of position: one indicator
\* column per category, 1.0 in the column of the row's own category and 0.0
\* in the others (a row of no category has 0.0 everywhere).
one_hot(rows, categories) ==
    [i \in DOMAIN rows |->
        [c \in (DOMAIN rows[i] \ {"position"})
                    \cup {feature_name(p) : p \in categories} |->
            IF c \in DOMAIN rows[i] \ {"position"} THEN rows[i][c]
            ELSE IF c = feature_name(rows[i]["position"]) THEN Num(1)
            ELSE Num(0)]]

\* The position encoding of clean_data: the encoder is fitted on the frame.
encode_position(rows) == one_hot(rows, fitted_categories(rows))

\* The columns of the frame, as far as the rows carry them.
frame_columns(rows) == UNION {DOMAIN rows[i] : i \in DOMAIN rows}

\* A check that finds every column in place.
no_missing_columns(rows) == {}

\* The merged file holds every column main_dataframe selects, so the rows
\* carry a column the reordering names unless it is a position indicator the
\* encoder did not make.  df[...] raises KeyError when a name is missing.
missing_columns(rows) ==
    {c \in Range(position_indicators) : c \notin frame_columns(rows)}

\* df[names_cols + player_info + ... + meta_cols]
reorder(rows) == select_cells(rows, cleaned_columns)

\* The statistics of the three df.loc[... == 0, ...] = 0.0 assignments.
guarded_stats == <<"three_points", "two_points", "free_throws">>

\* The statistic of a percentage column among the guarded ones, if any.
guard_of(c) == {s \in Range(guarded_stats) : percentage_of(s) = c}

\* A guard that only fills the missing percentages.
guard_nulls_only(rows) ==
    [i \in DOMAIN rows |->
        [c \in DOMAIN rows[i] |->
            IF \E s \in guard_of(c) :
                    /\ rows[i][attempts_of(s)] = Num(0)
                    /\ rows[i][c] = NaN
            THEN Num(0)
            ELSE rows[i][c]]]

\* df.loc[df["<s>_attempts"] == 0, "<s>_percentage"] = 0.0, for the three
\* guarded statistics
zero_attempt_guard(rows) ==
    [i \in DOMAIN rows |->
        [c \in DOMAIN rows[i] |->
            IF \E s \in guard_of(c) : rows[i][attempts_of(s)] = Num(0)
            THEN Num(0)
            ELSE rows[i][c]]]

\* rescale_perc_cols
rescale_perc_cols ==
    <<"off_reb_%", "def_reb_%", "total_reb_%", "assist_%", "steal_%", "blk_%",
      "turnover_%", "usage_%">>

\* (df[rescale_perc_cols] / 100).round(4), cell by cell: a missing value
\* stays missing.
rescale_cell(x) == IF x = NaN THEN NaN ELSE Num(round_half_even(x.v, 10))

rescale(rows) ==
    [i \in DOMAIN rows |->
        [c \in DOMAIN rows[i] |->
            IF c \in Range(rescale_perc_cols) THEN rescale_cell(rows[i][c])
            ELSE rows[i][c]]]

RECURSIVE sorted_values(_)
\* The values of a sequence in ascending order, repetitions kept.
sorted_values(s) ==
    IF s = <<>> THEN <<>>
    ELSE LET i == CHOOSE i \in DOMAIN s : \A j \in DOMAIN s : s[i] <= s[j]
         IN  <<s[i]>> \o sorted_values(SubSeq(s, 1, i - 1) \o SubSeq(s, i + 1, Len(s)))

\* The median of a non-empty sequence of integers, as a float: the middle
\* value, or the mean of the two middle values.
median(s) ==
    LET o == sorted_values(s)
        n == Len(o)
        two == o[n \div 2] + o[n \div 2 + 1]
    IN  IF n % 2 = 1 THEN Num(o[(n + 1) \div 2])
        ELSE IF two % 2 = 0 THEN Num(two \div 2)
        ELSE Frac(two, 2)

\* The median of the values of the row's own season only.
season_median(rows, i, c) ==
    LET kept == SelectSeq(rows, LAMBDA r :
                    r[c] # NaN /\ r["season_year"] = rows[i]["season_year"])
    IN  IF kept = <<>> THEN NaN ELSE median([k \in DOMAIN kept |-> kept[k][c].v])

\* The columns the imputer can be given: every column but the text ones.
numeric_columns(rows) == frame_columns(rows) \ TextColumns

\* df.columns[df.isnull().any()]
columns_with_nulls(rows) ==
    {c \in numeric_columns(rows) : \E i \in DOMAIN rows : rows[i][c] = NaN}

\* The values of column c that are not missing, in row order.
present_values(rows, c) ==
    LET kept == SelectSeq(rows, LAMBDA r : r[c] # NaN)
    IN  [i \in DOMAIN kept |-> kept[i][c].v]

\* A column of missing values only: SimpleImputer leaves it out of its
\* result, and the assignment of the narrower array back to the frame raises.
empty_columns(rows) ==
    {c \in columns_with_nulls(rows) : present_values(rows, c) = <<>>}

\* The value the imputer gives a missing cell of row i in column c: the
\* median of the column's present values, taken over the whole table.
fill_value(rows, i, c) == median(present_values(rows, c))

\* SimpleImputer(strategy="median").fit_transform over the columns with a
\* missing value, assigned back to the frame.
impute(rows) ==
    [i \in DOMAIN rows |->
        [c \in DOMAIN rows[i] |->
            IF c \notin TextColumns /\ rows[i][c] = NaN
            THEN fill_value(rows, i, c)
            ELSE rows[i][c]]]

\* A row of the merged table, its four shooting statistics alike: a center
\* with a usage of 20 %, and the win_pct of its conference if it has one.
main_row(name, team, conf, sy, mvp, att, pct) ==
    [c \in MainColumns |->
        CASE c = "player_name" -> name
          [] c = "position" -> "C"
          [] c = "team" -> team
          [] c = "conf" -> conf
          [] c = "win_pct" -> IF conf = "" THEN NaN ELSE Num(500)
          [] c = "usage_%" -> Num(20000)
          [] c = "season_year" -> Num(sy)
          [] c = "is_MVP" -> Num(mvp)
          [] c \in {attempts_of(s) : s \in Range(ShootingStats)} -> att
          [] OTHER -> pct]

player_label(i) == "P" \o ToString(i)

\* The five positions the indicators of the reordering stand for.
Positions == <<"C", "PF", "PG", "SF", "SG">>

\* Five players of one team, one at each of the five positions.
Roster ==
    [k \in DOMAIN Positions |->
        [main_row("R" \o ToString(k), "BOS", "E", HeldOutSeason, 0,
                  Num(MaxAttempts), Num(400))
            EXCEPT !["position"] = Positions[k]]]

\* The percentages a bounded table holds: missing, zero and two others.
RawPercentages == {NaN, Num(0), Num(400), Num(600)}
\* The attempts a bounded table holds: none or some.
RawAttempts == {Num(0), Num(MaxAttempts)}

\* Merged tables that vary the shooting cells: one row per player, no
\* winner, followed by the roster.
ShootingTables ==
    {[i \in DOMAIN t |->
        main_row(player_label(i), "BOS", "E", HeldOutSeason, 0, t[i][1], t[i][2])]
            \o Roster :
        t \in SeqsUpTo(RawAttempts \X RawPercentages, MaxShootingRows)}

\* How a player appears in a season of the totals table.
Stints == {"absent", "one team", "traded"}

\* The rows the totals page gives a player: one row, or the aggregate row
\* followed by one row per team; every row is flagged by the player's name.
stint_rows(name, stint, sy, winner) ==
    LET row(team, conf) ==
            main_row(name, team, conf, sy, is_MVP_of(name, winner),
                     Num(MaxAttempts), Num(400))
    IN  CASE stint = "absent" -> <<>>
          [] stint = "one team" -> <<row("BOS", "E")>>
          [] OTHER -> <<row("2TM", ""), row("BOS", "E"), row("LAL", "W")>>

\* The League Average row that closes a season's page.
average_row(sy, winner) ==
    main_row("League Average", "", "", sy, is_MVP_of("League Average", winner),
             Num(MaxAttempts), Num(400))

Players == <<"A", "B">>
Winners == {""} \cup Range(Players)

\* One season of the totals table.
season_table(sy, stints, winner, closing) ==
    stint_rows(Players[1], stints[1], sy, winner)
        \o stint_rows(Players[2], stints[2], sy, winner)
        \o (IF closing THEN <<average_row(sy, winner)>> ELSE <<>>)

\* The seasons of the bounded totals tables.
TotalsSeasons == <<HeldOutSeason - 1, HeldOutSeason>>

\* The winner the page names, if it names one, has rows on the page.
winner_plays(stints, winner) ==
    winner = "" \/ \E p \in DOMAIN Players :
                        Players[p] = winner /\ stints[p] # "absent"

\* Merged tables that vary who plays where and who won, over two seasons,
\* followed by the roster.
IdentityTables ==
    {[rows |-> season_table(TotalsSeasons[1], c.s1, c.w[1], c.closing)
                   \o season_table(TotalsSeasons[2], c.s2, c.w[2], c.closing)
                   \o Roster,
      mvp |-> c.w] :
        c \in {c \in [s1 : [1..2 -> Stints], s2 : [1..2 -> Stints],
                      w : [1..2 -> Winners], closing : BOOLEAN] :
                    winner_plays(c.s1, c.w[1]) /\ winner_plays(c.s2, c.w[2])}}

\* The positions of the added rows of a bounded table: a position of the
\* five, one outside them, and a missing one.
AddedPositions == {"C", "G", ""}

\* Merged tables that vary the positions: the roster, whole or short of one
\* player, followed by added rows; and a page that lists no player.
PositionTables ==
    {SelectSeq(Roster, LAMBDA r : r["position"] # gone)
            \o [i \in DOMAIN added |->
                    [main_row(player_label(i), "BOS", "E", HeldOutSeason, 0,
                              Num(MaxAttempts), Num(400))
                        EXCEPT !["position"] = added[i]]] :
        gone \in {"none"} \cup Range(Positions),
        added \in SeqsUpTo(AddedPositions, MaxAddedRows)}
    \cup {<<average_row(HeldOutSeason, "")>>}

\* The seasons of the tables that vary the standings columns: a training
\* season and the validation season after it.
ContextSeasons == <<HeldOutSeason - 2, HeldOutSeason - 1>>

\* What the merge gave a row: the conference and the win_pct of its team, or
\* two missing values when its team matched no standings entry.
Contexts ==
    {[conf |-> "", win_pct |-> NaN]}
        \cup {[conf |-> cf, win_pct |-> Num(200 * w)] :
                    cf \in {"E", "W"}, w \in 1..MaxWinPct}

\* Row k of the roster in a season and a context.
context_row(k, sy, context) ==
    [Roster[k] EXCEPT !["season_year"] = Num(sy),
                      !["conf"] = context.conf,
                      !["win_pct"] = context.win_pct]

\* The rows of the roster whose context does not vary: training-season rows
\* of alternating conferences and growing win_pct.
settled_row(k) ==
    context_row(k, ContextSeasons[1],
                [conf |-> IF k % 2 = 1 THEN "E" ELSE "W", win_pct |-> Num(200 * k)])

\* Merged tables that vary the season and the standings columns of the first
\* rows of the roster; and the roster with no team matched at all.
ContextTables ==
    {[k \in DOMAIN Roster |->
        IF k \in DOMAIN c THEN context_row(k, c[k][1], c[k][2])
        ELSE settled_row(k)] :
            c \in [1..MaxContextRows -> Range(ContextSeasons) \X Contexts]}
    \cup {[k \in DOMAIN Roster |->
              context_row(k, ContextSeasons[1], [conf |-> "", win_pct |-> NaN])]}

\* The usage_% a bounded table holds: missing, or a value whose rescaling
\* rounds down or up.
RawUsage == {NaN, Num(25344), Num(25346)}

\* Merged tables that vary usage_%: the roster followed by added rows.
UsageTables ==
    {Roster \o [i \in DOMAIN u |->
                  [main_row(player_label(i), "BOS", "E", HeldOutSeason, 0,
                            Num(MaxAttempts), Num(400))
                      EXCEPT !["usage_%"] = u[i]]] :
        u \in SeqsUpTo(RawUsage, MaxAddedRows)}

NoWinner == [i \in 1..2 |-> ""]

MainTables ==
    {[rows |-> t, mvp |-> NoWinner] :
        t \in ShootingTables \cup PositionTables \cup ContextTables
                \cup UsageTables}
        \cup IdentityTables

InitClean ==
    /\ main_readable \in BOOLEAN
    /\ \E t \in (IF main_readable THEN MainTables
                 ELSE {[rows |-> <<>>, mvp |-> NoWinner]}) :
        /\ main_rows = t.rows
        /\ season_mvp = t.mvp
    /\ cpc = "start"
    /\ clean_df = <<>>
    /\ cleaned = <<>>

\* df = pd.read_csv(raw_df)
CleanRead ==
    /\ cpc = "start"
    /\ main_readable
    /\ clean_df' = main_rows
    /\ cpc' = "read"
    /\ UNCHANGED <<main_rows, main_readable, season_mvp, cleaned>>
    /\ UNCHANGED notClean

\* The file cannot be read: the except branch prints and raises again.
CleanReadRaises ==
    /\ cpc = "start"
    /\ ~main_readable
    /\ cpc' = "raised"
    /\ UNCHANGED <<main_rows, main_readable, season_mvp, clean_df, cleaned>>
    /\ UNCHANGED notClean

\* Remove "League Average" lines
CleanDropAverage ==
    /\ cpc = "read"
    /\ clean_df' = drop_league_average(clean_df)
    /\ cpc' = "players"
    /\ UNCHANGED <<main_rows, main_readable, season_mvp, cleaned>>
    /\ UNCHANGED notClean

\* Remove lines with value 2TM, 3TM... under team, then drop team
CleanDropTeams ==
    /\ cpc = "players"
    /\ clean_df' = drop_column(drop_multiple_teams(clean_df), "team")
    /\ cpc' = "teams"
    /\ UNCHANGED <<main_rows, main_readable, season_mvp, cleaned>>
    /\ UNCHANGED notClean

\* conf (binary : E = 0 ; W = 1)
CleanConf ==
    /\ cpc = "teams"
    /\ clean_df' = map_conf(clean_df)
    /\ cpc' = "encoded"
    /\ UNCHANGED <<main_rows, main_readable, season_mvp, cleaned>>
    /\ UNCHANGED notClean

\* position (OneHotEncoder)
CleanOneHot ==
    /\ cpc = "encoded"
    /\ clean_df # <<>>
    /\ clean_df' = encode_position(clean_df)
    /\ cpc' = "one_hot"
    /\ UNCHANGED <<main_rows, main_readable, season_mvp, cleaned>>
    /\ UNCHANGED notClean

\* No row is left: fit_transform refuses an array of 0 samples, the except
\* branch prints and raises again.
CleanOneHotRaises ==
    /\ cpc = "encoded"
    /\ clean_df = <<>>
    /\ cpc' = "raised"
    /\ UNCHANGED <<main_rows, main_readable, season_mvp, clean_df, cleaned>>
    /\ UNCHANGED notClean

\* Repositionning Encoded positions
CleanReorder ==
    /\ cpc = "one_hot"
    /\ missing_columns(clean_df) = {}
    /\ clean_df' = reorder(clean_df)
    /\ cpc' = "ordered"
    /\ UNCHANGED <<main_rows, main_readable, season_mvp, cleaned>>
    /\ UNCHANGED notClean

\* A column the reordering names is not in the frame: KeyError, the except
\* branch prints and raises again.
CleanReorderRaises ==
    /\ cpc = "one_hot"
    /\ missing_columns(clean_df) # {}
    /\ cpc' = "raised"
    /\ UNCHANGED <<main_rows, main_readable, season_mvp, clean_df, cleaned>>
    /\ UNCHANGED notClean

\* if data in shooting attempts = 0, pct = 0
CleanGuard ==
    /\ cpc = "ordered"
    /\ clean_df' = zero_attempt_guard(clean_df)
    /\ cpc' = "guarded"
    /\ UNCHANGED <<main_rows, main_readable, season_mvp, cleaned>>
    /\ UNCHANGED notClean

\* Rescale 0-100% cols to 0-1 format
CleanRescale ==
    /\ cpc = "guarded"
    /\ clean_df' = rescale(clean_df)
    /\ cpc' = "rescaled"
    /\ UNCHANGED <<main_rows, main_readable, season_mvp, cleaned>>
    /\ UNCHANGED notClean

\* Find columns with missing values and replace it with column's mediane
CleanImpute ==
    /\ cpc = "rescaled"
    /\ empty_columns(clean_df) = {}
    /\ clean_df' = impute(clean_df)
    /\ cpc' = "imputed"
    /\ UNCHANGED <<main_rows, main_readable, season_mvp, cleaned>>
    /\ UNCHANGED notClean

\* A column holds missing values only: the assignment of the imputer's result
\* raises, the except branch prints and raises again.
CleanImputeRaises ==
    /\ cpc = "rescaled"
    /\ empty_columns(clean_df) # {}
    /\ cpc' = "raised"
    /\ UNCHANGED <<main_rows, main_readable, season_mvp, clean_df, cleaned>>
    /\ UNCHANGED notClean

\* df.to_csv(output_file, index=False) and the return
CleanSave ==
    /\ cpc = "imputed"
    /\ cleaned' = clean_df
    /\ cpc' = "saved"
    /\ UNCHANGED <<main_rows, main_readable, season_mvp, clean_df>>
    /\ UNCHANGED notClean

NextClean ==
    \/ CleanRead
    \/ CleanReadRaises
    \/ CleanDropAverage
    \/ CleanDropTeams
    \/ CleanConf
    \/ CleanOneHot
    \/ CleanOneHotRaises
    \/ CleanReorder
    \/ CleanReorderRaises
    \/ CleanGuard
    \/ CleanRescale
    \/ CleanImpute
    \/ CleanImputeRaises
    \/ CleanSave

\* ------------------------------------------------------------- engineering
\* Cells.  Counting statistics, game_played, conf and season_year are
\* integers; win_pct is an integer in thousandths (700 stands for 0.700).  A
\* cell computed by a division is a float: Num(v), NaN, Inf(sign) or the
\* exact quotient Frac(n, d) with d # 0.
\* player_info of engineering: with team_standing
player_info ==
    <<"position_C", "position_PF", "position_PG", "position_SF",
      "position_SG", "age", "conf", "win_pct", "team_standing", "game_played",
      "game_starter", "minutes_played">>

\* stats_to_avg: the counting statistics averaged per game
stats_to_avg ==
    <<"field_goal_made", "field_goal_attempts", "three_points_made",
      "three_points_attempts", "two_points_made", "two_points_attempts",
      "free_throws_made", "free_throws_attempts", "offensive_rebonds",
      "defensive_rebonds", "total_rebonds", "assists", "steals", "blocks",
      "turnovers", "personal_fouls", "total_points">>

\* the columns engineering drops after the selection
dropped_columns ==
    <<"field_goal_made", "three_points_made", "two_points_made",
      "free_throws_made", "offensive_rebonds", "defensive_rebonds", "win_pct",
      "minutes_played", "personal_fouls", "game_starter", "off_box_+/-",
      "off_win_shares", "def_win_shares", "two_points_attempts",
      "effective_fg_percentage", "efficiency_rating">>

\* features of train_mvp_model
features_training ==
    <<"position_C", "position_PF", "position_PG", "position_SF",
      "position_SG", "age", "conf", "team_standing", "game_played",
      "field_goal_attempts", "field_goal_percentage", "three_points_attempts",
      "three_points_percentage", "two_points_percentage",
      "free_throws_attempts", "free_throws_percentage", "total_rebonds",
      "assists", "steals", "blocks", "turnovers", "total_points",
      "triple_double", "true_shooting_%", "3pt_attempt_rate",
      "FT_attempt_rate", "off_reb_%", "def_reb_%", "total_reb_%", "assist_%",
      "steal_%", "blk_%", "turnover_%", "usage_%", "total_win_shares",
      "ws_per_48", "def_box_+/-", "box_+/-", "value_over_replacement",
      "field_goal_made_per_game", "field_goal_attempts_per_game",
      "three_points_made_per_game", "three_points_attempts_per_game",
      "two_points_made_per_game", "two_points_attempts_per_game",
      "free_throws_made_per_game", "free_throws_attempts_per_game",
      "offensive_rebonds_per_game", "defensive_rebonds_per_game",
      "total_rebonds_per_game", "assists_per_game", "steals_per_game",
      "blocks_per_game", "turnovers_per_game", "personal_fouls_per_game",
      "total_points_per_game">>

\* define_features of the evaluation script
features_evaluation ==
    <<"position_C", "position_PF", "position_PG", "position_SF",
      "position_SG", "age", "conf", "team_standing", "game_played",
      "field_goal_attempts", "field_goal_percentage", "three_points_attempts",
      "three_points_percentage", "two_points_percentage",
      "free_throws_attempts", "free_throws_percentage", "total_rebonds",
      "assists", "steals", "blocks", "turnovers", "total_points",
      "triple_double", "true_shooting_%", "3pt_attempt_rate",
      "FT_attempt_rate", "off_reb_%", "def_reb_%", "total_reb_%", "assist_%",
      "steal_%", "blk_%", "turnover_%", "usage_%", "total_win_shares",
      "ws_per_48", "def_box_+/-", "box_+/-", "value_over_replacement",
      "field_goal_made_per_game", "field_goal_attempts_per_game",
      "three_points_made_per_game", "three_points_attempts_per_game",
      "two_points_made_per_game", "two_points_attempts_per_game",
      "free_throws_made_per_game", "free_throws_attempts_per_game",
      "offensive_rebonds_per_game", "defensive_rebonds_per_game",
      "total_rebonds_per_game", "assists_per_game", "steals_per_game",
      "blocks_per_game", "turnovers_per_game", "personal_fouls_per_game",
      "total_points_per_game">>

\* features of the prediction script
features_prediction ==
    <<"position_C", "position_PF", "position_PG", "position_SF",
      "position_SG", "age", "conf", "team_standing", "game_played",
      "field_goal_attempts", "field_goal_percentage", "three_points_attempts",
      "three_points_percentage", "two_points_percentage",
      "free_throws_attempts", "free_throws_percentage", "total_rebonds",
      "assists", "steals", "blocks", "turnovers", "total_points",
      "triple_double", "true_shooting_%", "3pt_attempt_rate",
      "FT_attempt_rate", "off_reb_%", "def_reb_%", "total_reb_%", "assist_%",
      "steal_%", "blk_%", "turnover_%", "usage_%", "total_win_shares",
      "ws_per_48", "def_box_+/-", "box_+/-", "value_over_replacement",
      "field_goal_made_per_game", "field_goal_attempts_per_game",
      "three_points_made_per_game", "three_points_attempts_per_game",
      "two_points_made_per_game", "two_points_attempts_per_game",
      "free_throws_made_per_game", "free_throws_attempts_per_game",
      "offensive_rebonds_per_game", "defensive_rebonds_per_game",
      "total_rebonds_per_game", "assists_per_game", "steals_per_game",
      "blocks_per_game", "turnovers_per_game", "personal_fouls_per_game",
      "total_points_per_game">>

\* f'{stat}_per_game'
per_game_name(stat) == stat \o "_per_game"

per_game_stats == [i \in DOMAIN stats_to_avg |-> per_game_name(stats_to_avg[i])]

\* names_cols + player_info + ... + meta_cols: the selection of engineering.
selected_columns ==
    names_cols \o player_info \o shooting_stats \o performance_stats
        \o per_game_stats \o advanced_stats \o meta_cols

\* The columns whose cells engineering reads; the cells of the other columns
\* are carried by no step and are not kept in the rows.
ReadColumns ==
    {"season_year", "conf", "win_pct", "game_played"} \cup Range(stats_to_avg)

IndexOf(s, x) == CHOOSE i \in DOMAIN s : s[i] = x

\* A game_played cell that keeps its zero.
zero_kept(gp) == Num(gp)

\* df_final['game_played'].replace(0, np.nan), cell by cell
replace_zero(gp) == IF gp = 0 THEN NaN ELSE Num(gp)

\* df_final[stat] / <divisor>, cell by cell, as numpy divides floats: a NaN
\* divisor gives NaN, a zero divisor gives inf, or NaN for 0 / 0.
divide(stat, divisor) ==
    IF divisor.kind = "nan" THEN NaN
    ELSE IF divisor.v # 0 THEN Frac(stat, divisor.v)
    ELSE IF stat = 0 THEN NaN
    ELSE Inf(stat)

\* .fillna(value), cell by cell: only NaN is filled, inf is kept.
fillna(x, value) == IF x.kind = "nan" THEN Num(value) ELSE x

\* (df_final[stat] / df_final['game_played'].replace(0, np.nan)).fillna(0)
per_game(stat, gp) == fillna(divide(stat, replace_zero(gp)), 0)

\* groupby(["season_year", "conf"]): rows i and j are in one group.
same_group(rows, i, j) ==
    /\ rows[i]["season_year"] = rows[j]["season_year"]
    /\ rows[i]["conf"] = rows[j]["conf"]

\* rank(method="min", ascending=False): 1 + the rows of the group above.
min_rank(rows, i) ==
    1 + Cardinality({j \in DOMAIN rows :
                        /\ same_group(rows, i, j)
                        /\ rows[j]["win_pct"] > rows[i]["win_pct"]})

\* rank(method="dense", ascending=False).astype(int) within the group of row
\* i: 1 + the distinct win_pct values of the group above the row's.
dense_rank(rows, i) ==
    1 + Cardinality({rows[j]["win_pct"] : j \in
                        {k \in DOMAIN rows :
                            /\ same_group(rows, i, k)
                            /\ rows[k]["win_pct"] > rows[i]["win_pct"]}})

\* df_final["team_standing"] = ...: the frame with the new column.
with_team_standing(rows) ==
    [i \in DOMAIN rows |-> rows[i] @@ ("team_standing" :> dense_rank(rows, i))]

\* The loop over stats_to_avg: one <stat>_per_game column per statistic.
with_per_game(rows) ==
    [i \in DOMAIN rows |->
        rows[i] @@ [c \in Range(per_game_stats) |->
                       per_game(rows[i][stats_to_avg[IndexOf(per_game_stats, c)]],
                                rows[i]["game_played"])]]

\* A drop that leaves win_pct in.
drop_but_win_pct(columns, dropped) ==
    SelectSeq(columns, LAMBDA c : c \notin Range(dropped) \ {"win_pct"})

\* df.drop(columns=...): the column list without the dropped ones.
drop(columns, dropped) == SelectSeq(columns, LAMBDA c : c \notin Range(dropped))

\* A row of the cleaned table: the odd statistics of stats_to_avg carry a,
\* the even ones b.
cleaned_row(sy, cf, wp, gp, a, b) ==
    [c \in ReadColumns |->
        CASE c = "season_year" -> sy
          [] c = "conf" -> cf
          [] c = "win_pct" -> wp
          [] c = "game_played" -> gp
          [] OTHER -> IF IndexOf(stats_to_avg, c) % 2 = 1 THEN a ELSE b]

\* The (season_year, conf) groups of the bounded tables: the two conferences
\* of a season and one conference of the season before.
StandingGroups ==
    {<<HeldOutSeason, 0>>, <<HeldOutSeason, 1>>, <<HeldOutSeason - 1, 0>>}

\* Cleaned tables that vary the standing: seasons, conferences and win_pct.
StandingRows ==
    {cleaned_row(g[1], g[2], wp * 100, 1, 0, 0) :
        g \in StandingGroups, wp \in 0..MaxWinPct}

\* Cleaned tables that vary the averages: game_played and the statistics.
AverageRows ==
    {cleaned_row(HeldOutSeason, 0, 0, gp, a, b) :
        gp \in 0..MaxGames, a \in 0..MaxStat, b \in 0..MaxStat}

CleanedTables ==
    SeqsUpTo(StandingRows, MaxStandingRows) \cup SeqsUpTo(AverageRows, MaxAverageRows)

InitEngineer ==
    /\ clean_readable \in BOOLEAN
    /\ clean_rows \in (IF clean_readable THEN CleanedTables ELSE {<<>>})
    /\ fpc = "start"
    /\ df_final = <<>>
    /\ df_columns = <<>>
    /\ engineered = <<>>

\* pd.read_csv(clean_path)
EngRead ==
    /\ fpc = "start"
    /\ clean_readable
    /\ df_final' = clean_rows
    /\ df_columns' = cleaned_columns
    /\ fpc' = "read"
    /\ UNCHANGED <<clean_rows, clean_readable, engineered>>
    /\ UNCHANGED notEngineer

\* The file cannot be read: the except branch prints and raises again.
EngRaises ==
    /\ fpc = "start"
    /\ ~clean_readable
    /\ fpc' = "raised"
    /\ UNCHANGED <<clean_rows, clean_readable, df_final, df_columns, engineered>>
    /\ UNCHANGED notEngineer

\* Adding team ranking
EngRank ==
    /\ fpc = "read"
    /\ df_final' = with_team_standing(df_final)
    /\ df_columns' = Append(df_columns, "team_standing")
    /\ fpc' = "ranked"
    /\ UNCHANGED <<clean_rows, clean_readable, engineered>>
    /\ UNCHANGED notEngineer

\* Averaging stats per game
EngPerGame ==
    /\ fpc = "ranked"
    /\ df_final' = with_per_game(df_final)
    /\ df_columns' = df_columns \o per_game_stats
    /\ fpc' = "averaged"
    /\ UNCHANGED <<clean_rows, clean_readable, engineered>>
    /\ UNCHANGED notEngineer

\* Reorganizing columns
EngSelect ==
    /\ fpc = "averaged"
    /\ Range(selected_columns) \subseteq Range(df_columns)
    /\ df_final' = select_cells(df_final, selected_columns)
    /\ df_columns' = selected_columns
    /\ fpc' = "selected"
    /\ UNCHANGED <<clean_rows, clean_readable, engineered>>
    /\ UNCHANGED notEngineer

\* Dimensionality reduction
EngDrop ==
    /\ fpc = "selected"
    /\ Range(dropped_columns) \subseteq Range(df_columns)
    /\ df_columns' = drop(df_columns, dropped_columns)
    /\ df_final' = select_cells(df_final, drop(df_columns, dropped_columns))
    /\ fpc' = "dropped"
    /\ UNCHANGED <<clean_rows, clean_readable, engineered>>
    /\ UNCHANGED notEngineer

\* df_final.to_csv(output_file, index=False) and the return
EngSave ==
    /\ fpc = "dropped"
    /\ engineered' = <<[columns |-> df_columns, rows |-> df_final]>>
    /\ fpc' = "saved"
    /\ UNCHANGED <<clean_rows, clean_readable, df_final, df_columns>>
    /\ UNCHANGED notEngineer

NextEngineer ==
    \/ EngRead
    \/ EngRaises
    \/ EngRank
    \/ EngPerGame
    \/ EngSelect
    \/ EngDrop
    \/ EngSave

\* ---------------------------------------------------------- main_dataframe
\* Cells.  player_name, team and conf are strings, "" standing for a missing
\* value (NaN in the frame); the other cells are floats, Num(v) or NaN.  The
\* rows carry the join keys, conf, win_pct, is_MVP and one advanced column.
\* The entries of the team_name_to_abbr dict literal, in the order written.
team_name_to_abbr_items ==
    <<<<"Atlanta Hawks", "ATL">>,
      <<"Boston Celtics", "BOS">>,
      <<"Brooklyn Nets", "BRK">>,
      <<"Chicago Bulls", "CHI">>,
      <<"Charlotte Hornets", "CHO">>,
      <<"Cleveland Cavaliers", "CLE">>,
      <<"Dallas Mavericks", "DAL">>,
      <<"Denver Nuggets", "DEN">>,
      <<"Detroit Pistons", "DET">>,
      <<"Golden State Warriors", "GSW">>,
      <<"Houston Rockets", "HOU">>,
      <<"Indiana Pacers", "IND">>,
      <<"Los Angeles Clippers", "LAC">>,
      <<"Los Angeles Lakers", "LAL">>,
      <<"Memphis Grizzlies", "MEM">>,
      <<"Miami Heat", "MIA">>,
      <<"Milwaukee Bucks", "MIL">>,
      <<"Minnesota Timberwolves", "MIN">>,
      <<"New Orleans Pelicans", "NOP">>,
      <<"New York Knicks", "NYK">>,
      <<"Oklahoma City Thunder", "OKC">>,
      <<"Orlando Magic", "ORL">>,
      <<"Philadelphia 76ers", "PHI">>,
      <<"Phoenix Suns", "PHO">>,
      <<"Portland Trail Blazers", "POR">>,
      <<"Sacramento Kings", "SAC">>,
      <<"San Antonio Spurs", "SAS">>,
      <<"Toronto Raptors", "TOR">>,
      <<"Utah Jazz", "UTA">>,
      <<"Washington Wizards", "WAS">>,
      <<"Charlotte Bobcats", "CHA">>,
      <<"Kansas City Kings", "KCK">>,
      <<"New Jersey Nets", "NJN">>,
      <<"San Diego Clippers", "SDC">>,
      <<"Seattle SuperSonics", "SEA">>,
      <<"Washington Bullets", "WSB">>,
      <<"Vancouver Grizzlies", "VAN">>,
      <<"New Orleans Hornets", "NOH">>,
      <<"Charlotte Hornets", "CHH">>,
      <<"New Orleans/Oklahoma City Hornets", "NOK">>>>

\* cols of main_dataframe: the totals and team columns kept
cols ==
    <<"player_name", "position", "age", "team", "conf", "win_pct",
      "game_played", "game_starter", "minutes_played", "field_goal_made",
      "field_goal_attempts", "field_goal_percentage", "three_points_made",
      "three_points_attempts", "three_points_percentage", "two_points_made",
      "two_points_attempts", "two_points_percentage",
      "effective_fg_percentage", "free_throws_made", "free_throws_attempts",
      "free_throws_percentage", "offensive_rebonds", "defensive_rebonds",
      "total_rebonds", "assists", "steals", "blocks", "turnovers",
      "personal_fouls", "total_points", "triple_double">>

\* A dict literal keeps, for a key written twice, the value written last;
\* Series.map gives NaN for a name that is no key.
team_name_to_abbr(name) ==
    LET hits == {i \in DOMAIN team_name_to_abbr_items :
                    team_name_to_abbr_items[i][1] = name}
    IN  IF hits = {} THEN ""
        ELSE team_name_to_abbr_items[CHOOSE i \in hits : \A j \in hits : j <= i][2]

\* df_ranking["team"].map(team_name_to_abbr)
map_team(rows) ==
    [i \in DOMAIN rows |->
        [c \in DOMAIN rows[i] |->
            IF c = "team" THEN team_name_to_abbr(rows[i][c]) ELSE rows[i][c]]]

\* The missing value of a column: NaN, written "" in a column of strings.
null_cell(c) == IF c \in {"player_name", "team", "conf"} THEN "" ELSE NaN

RECURSIVE concat_all(_)
concat_all(ss) == IF ss = <<>> THEN <<>> ELSE Head(ss) \o concat_all(Tail(ss))

\* The rows of the right frame whose key cells equal those of left row l;
\* pandas matches a missing key with a missing key.
matches(l, right, on) == SelectSeq(right, LAMBDA r : \A k \in on : r[k] = l[k])

\* The name a right column gets in the merged frame: suffixed when the left
\* frame has a column of that name.
merged_name(c, l, suffix) == IF c \in DOMAIN l THEN c \o suffix ELSE c

\* The right frame's cells of a merged row: those of right row r, or missing
\* values when r is <<>>.
right_cells(l, r, right_columns, on, suffix) ==
    [n \in {merged_name(c, l, suffix) : c \in right_columns \ on} |->
        LET c == CHOOSE c \in right_columns \ on : merged_name(c, l, suffix) = n
        IN  IF r = <<>> THEN null_cell(c) ELSE r[c]]

\* pd.merge(left, right, on=on, how='left', suffixes=('', suffix)): every left
\* row, once per matching right row, or once with missing right cells.
left_merge(left, right, right_columns, on, suffix) ==
    concat_all([i \in DOMAIN left |->
        LET m == matches(left[i], right, on)
        IN  IF m = <<>>
            THEN <<left[i] @@ right_cells(left[i], <<>>, right_columns, on, suffix)>>
            ELSE [j \in DOMAIN m |->
                    left[i] @@ right_cells(left[i], m[j], right_columns, on, suffix)]])

\* A join on the season alone.
season_key == {"season_year"}

\* on=['team', 'season_year']
ranking_key == {"team", "season_year"}

\* on=['player_name', 'team', 'season_year']
advanced_key == {"player_name", "team", "season_year"}

RankingColumns == {"team", "conf", "win_pct", "season_year"}
AdvancedColumns == {"player_name", "team", "season_year", "is_MVP", "box_+/-"}

\* cols + advanced_cols + meta_cols
main_columns == cols \o advanced_stats \o meta_cols

\* The conference and the win_pct (thousandths) of the teams of the bounded
\* standings; "LA Clippers" is a name the dict does not hold.
StandingNames == {"Boston Celtics", "Charlotte Hornets", "LA Clippers"}

standings_row(name, sy) ==
    [team |-> name,
     conf |-> IF name = "LA Clippers" THEN "W" ELSE "E",
     win_pct |-> CASE name = "Boston Celtics" -> Num(600)
                   [] name = "Charlotte Hornets" -> Num(400)
                   [] name = "Milwaukee Bucks" -> Num(200)
                   [] OTHER -> Num(500),
     season_year |-> Num(sy)]

totals_row(name, team, sy) ==
    [player_name |-> name, team |-> team, season_year |-> Num(sy),
     is_MVP |-> Num(0)]

advanced_row(name, team, sy) ==
    totals_row(name, team, sy) @@ ("box_+/-" :> Num(MaxStat))

\* Tables of distinct rows.
DistinctUpTo(S, n) ==
    {s \in SeqsUpTo(S, n) : \A i, j \in DOMAIN s : s[i] = s[j] => i = j}

\* The rows of one totals page: players on a team, and the League Average
\* row, whose team cell is empty.
PageRows(names, teams, sy) ==
    {totals_row(n, t, sy) : n \in names, t \in teams}
        \cup {totals_row("League Average", "", sy)}

\* Inputs that vary the standings: one player per team, no advanced row.
RankingInputs ==
    {[totals |-> t, standings |-> r, advanced |-> <<>>] :
        t \in DistinctUpTo(PageRows({"A"}, {"BOS", "CHO", "LAC"}, HeldOutSeason),
                           MaxTotalsRows),
        r \in DistinctUpTo({standings_row(n, sy) :
                                n \in StandingNames, sy \in Range(TotalsSeasons)},
                           MaxStandingsRows)}

\* Inputs that vary the advanced table, over one standings row.
AdvancedInputs ==
    {[totals |-> t, standings |-> <<standings_row("Boston Celtics", HeldOutSeason)>>,
      advanced |-> [i \in DOMAIN a |->
                       advanced_row(a[i]["player_name"], a[i]["team"], HeldOutSeason)]] :
        t \in DistinctUpTo(PageRows({"A", "B"}, {"BOS", "CHO"}, HeldOutSeason),
                           MaxTotalsRows),
        a \in DistinctUpTo(PageRows({"A", "B"}, {"BOS", "CHO"}, HeldOutSeason),
                           MaxAdvancedRows)}

MergeInputs == RankingInputs \cup AdvancedInputs

InitMerge ==
    /\ inputs_readable \in BOOLEAN
    /\ \E t \in (IF inputs_readable THEN MergeInputs
                 ELSE {[totals |-> <<>>, standings |-> <<>>, advanced |-> <<>>]}) :
        /\ totals_csv = t.totals
        /\ standings_csv = t.standings
        /\ advanced_csv = t.advanced
    /\ mpc = "start"
    /\ df_ranking = <<>>
    /\ df_augmented = <<>>
    /\ df_merged = <<>>
    /\ main_saved = <<>>
    /\ main_printed = FALSE

\* Load team rankings data and convert team full names into abbreviations
MergeMap ==
    /\ mpc = "start"
    /\ inputs_readable
    /\ df_ranking' = map_team(standings_csv)
    /\ mpc' = "mapped"
    /\ UNCHANGED <<totals_csv, standings_csv, advanced_csv, inputs_readable,
                   df_augmented, df_merged, main_saved, main_printed>>
    /\ UNCHANGED notMerge

\* A file cannot be read: the exception leaves the function through the
\* finally clause, which prints.
MergeRaises ==
    /\ mpc = "start"
    /\ ~inputs_readable
    /\ mpc' = "raised"
    /\ main_printed' = TRUE
    /\ UNCHANGED <<totals_csv, standings_csv, advanced_csv, inputs_readable,
                   df_ranking, df_augmented, df_merged, main_saved>>
    /\ UNCHANGED notMerge

\* Merge player stats with team rankings based on team and season
MergeRanking ==
    /\ mpc = "mapped"
    /\ df_augmented' =
           left_merge(totals_csv, df_ranking, RankingColumns, ranking_key, "")
    /\ mpc' = "augmented"
    /\ UNCHANGED <<totals_csv, standings_csv, advanced_csv, inputs_readable,
                   df_ranking, df_merged, main_saved, main_printed>>
    /\ UNCHANGED notMerge

\* Merge with advanced stats using player name, team, and season
MergeAdvanced ==
    /\ mpc = "augmented"
    /\ df_merged' =
           left_merge(df_augmented, advanced_csv, AdvancedColumns, advanced_key,
                      "_adv")
    /\ mpc' = "merged"
    /\ UNCHANGED <<totals_csv, standings_csv, advanced_csv, inputs_readable,
                   df_ranking, df_augmented, main_saved, main_printed>>
    /\ UNCHANGED notMerge

\* Keep only the selected columns to create the final dataframe
MergeSelect ==
    /\ mpc = "merged"
    /\ df_merged' = select_cells(df_merged, main_columns)
    /\ mpc' = "selected"
    /\ UNCHANGED <<totals_csv, standings_csv, advanced_csv, inputs_readable,
                   df_ranking, df_augmented, main_saved, main_printed>>
    /\ UNCHANGED notMerge

\* df_final.to_csv(output_file, index=False), then the finally clause
MergeSave ==
    /\ mpc = "selected"
    /\ main_saved' = df_merged
    /\ main_printed' = TRUE
    /\ mpc' = "saved"
    /\ UNCHANGED <<totals_csv, standings_csv, advanced_csv, inputs_readable,
                   df_ranking, df_augmented, df_merged>>
    /\ UNCHANGED notMerge

NextMerge ==
    \/ MergeMap
    \/ MergeRaises
    \/ MergeRanking
    \/ MergeAdvanced
    \/ MergeSelect
    \/ MergeSave

\* --------------------------------------------------------- stage outputs
\* The output directory over a sequence of runs.  An instant of the clock is
\* a day and a time of that day; the content of a file is a number that
\* stands for the table or the model a run computed.
Stages == {"merge", "clean", "engineer", "train"}

\* datetime.today().strftime('%Y-%m-%d'): the date of the instant, its time
\* of day left out.  A date is written as its day number.
strftime(instant) == ToString(instant.day)

\* The f-strings that name the file of a stage, below output_path.
output_file(stage, instant) ==
    CASE stage = "merge" -> "01_df_row_" \o strftime(instant) \o ".csv"
      [] stage = "clean" ->
            "02_df_cleaned_ready_for_engineering" \o strftime(instant) \o ".csv"
      [] stage = "engineer" ->
            "03_df_advances_ready_for_training" \o strftime(instant) \o ".csv"
      [] stage = "train" ->
            "mvp_xgb_advancedfeatures_model" \o strftime(instant) \o ".pkl"

\* The instants after an instant: later the same day, or on a later day.
Later(instant) ==
    {i \in [day : 1..MaxDays, time : 1..MaxTimes] :
        \/ i.day > instant.day
        \/ i.day = instant.day /\ i.time > instant.time}

\* to_csv(output_file) or open(model_filename, 'wb') with pickle.dump: the
\* file is created, or truncated and written again when it exists.
write_file(dir, file, content) ==
    [f \in DOMAIN dir \cup {file} |-> IF f = file THEN content ELSE dir[f]]

InitArtifact ==
    /\ clock \in {[day |-> 1, time |-> t] : t \in 1..MaxTimes}
    /\ output_dir = <<>>
    /\ written = <<>>

\* Runs are in sequence: a run starts after the run before it has returned.
may_run ==
    /\ Len(written) < MaxRuns
    /\ written # <<>> => clock \in Later(written[Len(written)].instant)

\* The directory after a run of a stage has written its file.
saved_dir(stage, content) ==
    write_file(output_dir, output_file(stage, clock), content)

\* The record of a run.
run_of(stage, content) ==
    [stage |-> stage, instant |-> clock, file |-> output_file(stage, clock),
     content |-> content]

\* main_dataframe: generate timestamped filename and save
SaveMerged ==
    /\ may_run
    /\ \E content \in 1..MaxContents :
        /\ output_dir' = saved_dir("merge", content)
        /\ written' = Append(written, run_of("merge", content))
    /\ UNCHANGED clock
    /\ UNCHANGED notArtifact

\* clean_data: save to CSV at the end
SaveCleaned ==
    /\ may_run
    /\ \E content \in 1..MaxContents :
        /\ output_dir' = saved_dir("clean", content)
        /\ written' = Append(written, run_of("clean", content))
    /\ UNCHANGED clock
    /\ UNCHANGED notArtifact

\* engineering: saving new dataframe
SaveEngineered ==
    /\ may_run
    /\ \E content \in 1..MaxContents :
        /\ output_dir' = saved_dir("engineer", content)
        /\ written' = Append(written, run_of("engineer", content))
    /\ UNCHANGED clock
    /\ UNCHANGED notArtifact

\* train_mvp_model: generate a timestamp and save the model file
SaveModel ==
    /\ may_run
    /\ \E content \in 1..MaxContents :
        /\ output_dir' = saved_dir("train", content)
        /\ written' = Append(written, run_of("train", content))
    /\ UNCHANGED clock
    /\ UNCHANGED notArtifact

\* Time passes between two runs.
TimePasses ==
    /\ clock' \in Later(clock)
    /\ UNCHANGED <<output_dir, written>>
    /\ UNCHANGED notArtifact

NextArtifact ==
    \/ SaveMerged
    \/ SaveCleaned
    \/ SaveEngineered
    \/ SaveModel
    \/ TimePasses

\* ------------------------------------------------------------ the pipeline
\* The three preprocessing stages run one after the other, each on the file
\* the stage before it saved.  The rows carry, from the totals file on, the
\* columns the three stages read.
TotalsColumns ==
    {"player_name", "position", "team", "season_year", "is_MVP", "game_played"}
        \cup Range(stats_to_avg)
        \cup {percentage_of(s) : s \in Range(ShootingStats)}

\* The season of the bounded pipeline tables.
PipelineSeason == HeldOutSeason - 1

\* The teams of the bounded standings, best record first; "LA Clippers" is
\* no key of the dict and "Charlotte Hornets" gives CHH.
PipelineNames ==
    <<"Boston Celtics", "Charlotte Hornets", "LA Clippers", "Milwaukee Bucks">>

\* The codes the totals page gives the players of these teams.
PipelineTeams == <<"BOS", "CHO", "LAC", "MIL">>

\* Row k of the roster on the totals page.
pipeline_row(k, team) ==
    [c \in TotalsColumns |->
        CASE c = "player_name" -> "R" \o ToString(k)
          [] c = "position" -> Positions[k]
          [] c = "team" -> team
          [] c = "season_year" -> Num(PipelineSeason)
          [] c = "is_MVP" -> Num(0)
          [] c = "game_played" -> Num(MaxGames)
          [] c \in Range(stats_to_avg) -> Num(MaxStat)
          [] OTHER -> Num(400)]

\* The League Average row of the totals page.
pipeline_average_row ==
    [pipeline_row(1, "") EXCEPT !["player_name"] = "League Average",
                                !["position"] = ""]

\* The team of a roster row whose team does not vary.
settled_team(k) == IF k % 2 = 1 THEN "BOS" ELSE "MIL"

\* Totals pages: the roster with the teams of its first rows varying; the
\* roster short of one position; a page that lists no player.
PipelineTotals ==
    {[k \in DOMAIN Positions |->
        pipeline_row(k, IF k \in DOMAIN t THEN t[k] ELSE settled_team(k))] :
            t \in [1..MaxPipelineRows -> Range(PipelineTeams)]}
    \cup {[k \in 1..(Len(Positions) - 1) |-> pipeline_row(k, settled_team(k))]}
    \cup {<<pipeline_average_row>>}

\* Standings tables: any of the teams, in the order of PipelineNames.
PipelineStandings ==
    {[i \in DOMAIN names |-> standings_row(names[i], PipelineSeason)] :
        names \in {SelectSeq(PipelineNames, LAMBDA n : n \in S) :
                        S \in SUBSET Range(PipelineNames)}}

\* The advanced table lists the rows of the totals page.
PipelineInputs ==
    {[totals |-> t, standings |-> r,
      advanced |-> [i \in DOMAIN t |->
                       advanced_row(t[i]["player_name"], t[i]["team"],
                                    PipelineSeason)]] :
        t \in PipelineTotals, r \in PipelineStandings}

\* pd.read_csv of the file to_csv wrote, column by column: a column of
\* numbers is read as its numbers, a column that holds a fraction keeps its
\* exact cells.
read_column(rows, c) ==
    IF \A i \in DOMAIN rows : rows[i][c] \in {Num(rows[i][c].v)}
    THEN [i \in DOMAIN rows |-> rows[i][c].v]
    ELSE [i \in DOMAIN rows |-> rows[i][c]]

read_cleaned(rows) ==
    [i \in DOMAIN rows |->
        [c \in DOMAIN rows[i] |->
            IF c \in TextColumns THEN rows[i][c] ELSE read_column(rows, c)[i]]]

InitPipe ==
    /\ inputs_readable \in BOOLEAN
    /\ \E t \in (IF inputs_readable THEN PipelineInputs
                 ELSE {[totals |-> <<>>, standings |-> <<>>, advanced |-> <<>>]}) :
        /\ totals_csv = t.totals
        /\ standings_csv = t.standings
        /\ advanced_csv = t.advanced
    /\ mpc = "start"
    /\ df_ranking = <<>>
    /\ df_augmented = <<>>
    /\ df_merged = <<>>
    /\ main_saved = <<>>
    /\ main_printed = FALSE

\* The caller runs clean_data on the file main_dataframe saved, or on a path
\* that cannot be read.
PassToClean ==
    /\ mpc = "saved"
    /\ cpc = "idle"
    /\ main_readable' \in BOOLEAN
    /\ main_rows' = IF main_readable' THEN main_saved ELSE <<>>
    /\ season_mvp' = [i \in 1..2 |-> ""]
    /\ cpc' = "start"
    /\ UNCHANGED <<clean_df, cleaned>>
    /\ UNCHANGED notClean

\* The caller runs engineering on the file clean_data saved, or on a path
\* that cannot be read.
PassToEngineer ==
    /\ cpc = "saved"
    /\ fpc = "idle"
    /\ clean_readable' \in BOOLEAN
    /\ clean_rows' = IF clean_readable' THEN read_cleaned(cleaned) ELSE <<>>
    /\ fpc' = "start"
    /\ UNCHANGED <<df_final, df_columns, engineered>>
    /\ UNCHANGED notEngineer

NextPipeline ==
    \/ NextMerge
    \/ PassToClean
    \/ NextClean
    \/ PassToEngineer
    \/ NextEngineer

\* ---------------------------------------------------------- specifications
SplitIdle ==
    /\ csv_seasons = <<>>
    /\ csv_readable = TRUE
    /\ tpc = "idle"
    /\ val_seasons = <<>>
    /\ train_seasons = <<>>
    /\ train_mask = <<>>
    /\ val_mask = <<>>

PredictIdle ==
    /\ dataframe = <<>>
    /\ given = <<>>
    /\ season = HeldOutSeason
    /\ top_n = 1
    /\ sort_memo = NothingSorted
    /\ ppc = "idle"
    /\ season_data = <<>>
    /\ top_players = <<>>
    /\ returned = <<>>
    /\ first_returned = <<>>
    /\ calls = 0

EvalIdle ==
    /\ data = <<>>
    /\ epc = "idle"
    /\ eval_seasons = <<>>
    /\ season_ix = 0
    /\ analysed = <<>>
    /\ ranks = <<>>
    /\ average = 0

EngineerIdle ==
    /\ clean_rows = <<>>
    /\ clean_readable = TRUE
    /\ fpc = "idle"
    /\ df_final = <<>>
    /\ df_columns = <<>>
    /\ engineered = <<>>

CleanIdle ==
    /\ main_rows = <<>>
    /\ main_readable = TRUE
    /\ season_mvp = <<>>
    /\ cpc = "idle"
    /\ clean_df = <<>>
    /\ cleaned = <<>>

MergeIdle ==
    /\ totals_csv = <<>>
    /\ standings_csv = <<>>
    /\ advanced_csv = <<>>
    /\ inputs_readable = TRUE
    /\ mpc = "idle"
    /\ df_ranking = <<>>
    /\ df_augmented = <<>>
    /\ df_merged = <<>>
    /\ main_saved = <<>>
    /\ main_printed = FALSE

ArtifactIdle ==
    /\ clock = [day |-> 1, time |-> 1]
    /\ output_dir = <<>>
    /\ written = <<>>

\* Training: the split and the row masks.
InitTraining == InitSplit /\ PredictIdle /\ EvalIdle /\ EngineerIdle
    /\ CleanIdle /\ MergeIdle /\ ArtifactIdle
SpecSplit == InitTraining /\ [][NextSplit]_vars

\* Inference: predict_the_mvp, called MaxCalls times.
InitInference == InitPredict /\ SplitIdle /\ EvalIdle /\ EngineerIdle
    /\ CleanIdle /\ MergeIdle /\ ArtifactIdle
SpecPredict == InitInference /\ [][NextPredict]_vars

\* Evaluation: the winner-rank analysis over the validation seasons.
InitEvaluation == InitEval /\ SplitIdle /\ PredictIdle /\ EngineerIdle
    /\ CleanIdle /\ MergeIdle /\ ArtifactIdle
SpecEval == InitEvaluation /\ [][NextEval]_vars

\* Feature engineering of one cleaned table.
InitEngineering ==
    InitEngineer /\ SplitIdle /\ PredictIdle /\ EvalIdle /\ CleanIdle
        /\ MergeIdle /\ ArtifactIdle
SpecEngineer == InitEngineering /\ [][NextEngineer]_vars

\* Cleaning of one merged table.
InitCleaning ==
    InitClean /\ SplitIdle /\ PredictIdle /\ EvalIdle /\ EngineerIdle
        /\ MergeIdle /\ ArtifactIdle
SpecClean == InitCleaning /\ [][NextClean]_vars

\* Merging of the three scraped tables.
InitMerging ==
    InitMerge /\ SplitIdle /\ PredictIdle /\ EvalIdle /\ EngineerIdle
        /\ CleanIdle /\ ArtifactIdle
SpecMerge == InitMerging /\ [][NextMerge]_vars

\* The pipeline: merge, then clean, then engineering.
InitPipeline ==
    InitPipe /\ SplitIdle /\ PredictIdle /\ EvalIdle /\ EngineerIdle
        /\ CleanIdle /\ ArtifactIdle
SpecPipeline == InitPipeline /\ [][NextPipeline]_vars

\* Runs of the stages, one after the other, into one output directory.
InitRuns ==
    InitArtifact /\ SplitIdle /\ PredictIdle /\ EvalIdle /\ EngineerIdle
        /\ CleanIdle /\ MergeIdle
SpecRuns == InitRuns /\ [][NextArtifact]_vars

\* ------------------------------------------------------------------ claims
\* The odd season-start years 2005..2023.
OddYears == {y \in 2005..2023 : y % 2 = 1}

\* C1: the validation list returned by the split is exactly the sorted list of
\* the odd years 2005..2023 that occur in the season_year column; a year that
\* is absent from the data is never returned.
C1_ValidationIsPresentOddYears ==
    tpc \in {"split", "masked"} =>
        val_seasons = SortedList(OddYears \cap Range(csv_seasons))

\* C2: validation and training share no season, 2024 is in neither, training
\* is the sorted list of the available seasons minus validation minus 2024;
\* and no row is in both masks, no row of season 2024 in either.
C2_SplitDisjointWithout2024 ==
    /\ tpc \in {"split", "masked"} =>
          /\ Range(val_seasons) \cap Range(train_seasons) = {}
          /\ 2024 \notin Range(val_seasons) \cup Range(train_seasons)
          /\ train_seasons =
                SortedList((Range(csv_seasons) \ Range(val_seasons)) \ {2024})
    /\ tpc = "masked" =>
          /\ DOMAIN train_mask = DOMAIN csv_seasons
          /\ DOMAIN val_mask = DOMAIN csv_seasons
          /\ \A i \in DOMAIN csv_seasons :
                /\ ~(train_mask[i] /\ val_mask[i])
                /\ csv_seasons[i] = 2024 => ~train_mask[i] /\ ~val_mask[i]
                /\ csv_seasons[i] \notin OddYears \cup {2024} => train_mask[i]

\* C2's case: a table with a row of 2024, a validation row and a training row,
\* masked.
C2_Witness ==
    /\ tpc = "masked"
    /\ \E i \in DOMAIN csv_seasons : csv_seasons[i] = 2024
    /\ \E i \in DOMAIN csv_seasons : val_mask[i]
    /\ \E i \in DOMAIN csv_seasons : train_mask[i]

\* The rows of the caller's table that belong to the season asked for.
AskedRows == {i \in DOMAIN dataframe : dataframe[i].season_year = season}

\* C3: asked for a season no row of the table has, predict_the_mvp raises
\* before it scores or normalises anything, and returns nothing.
C3_AbsentSeasonRaises ==
    AskedRows = {} =>
        /\ ppc \in {"call", "raised"}
        /\ ppc = "call" => ENABLED PredictRaises /\ ~ENABLED PredictFilter
        /\ season_data = <<>>
        /\ top_players = <<>>
        /\ returned = <<>>
        /\ calls = 0

\* C3's case: the table has rows, none of the season, and the call has raised.
C3_Witness ==
    /\ AskedRows = {}
    /\ dataframe # <<>>
    /\ ppc = "raised"

\* The scores that were normalised, and whether they are all positive.
TopScores == [j \in DOMAIN top_players |-> top_players[j].predicted_score]
TopPositive == \A j \in DOMAIN top_players : top_players[j].predicted_score > 0
Normalised == ppc \in {"normalised", "returned"}

\* C4: a zero or negative sum of the top-N scores, or a negative score among
\* them, is detected: no percentage is made by dividing by such a sum.
C4_DegenerateDetected ==
    Normalised =>
        /\ SumSeq(TopScores) > 0
        /\ \A j \in DOMAIN top_players : top_players[j].predicted_score >= 0

\* The j-th largest score of the season asked for.
JthScore(j) ==
    LET sc(i) == predict(dataframe[i].x)
    IN  CHOOSE v \in {sc(i) : i \in AskedRows} :
            /\ Cardinality({i \in AskedRows : sc(i) > v}) < j
            /\ Cardinality({i \in AskedRows : sc(i) >= v}) >= j

\* r is n / d rounded to a nearest integer (d > 0)
IsRounded(r, n, d) == 2 * Abs(r * d - n) <= d

\* C5: with positive top-N scores, the i-th of the top_n highest-scored rows
\* of the season gets round(score_i / (sum of the top_n scores) * 100, 2),
\* the sum being over the top_n rows only.
C5_TopNPercentage ==
    (Normalised /\ TopPositive) =>
        LET n == IF top_n < Cardinality(AskedRows)
                 THEN top_n ELSE Cardinality(AskedRows)
            total == SumSeq([j \in 1..n |-> JthScore(j)])
        IN  /\ Len(top_players) = n
            /\ \A j \in 1..n :
                  /\ top_players[j].predicted_score = JthScore(j)
                  /\ top_players[j].predicted_probability.kind = "num"
                  /\ IsRounded(top_players[j].predicted_probability.v,
                               JthScore(j) * 10000, total)

\* C5's case: scores 0.8, 0.5, 0.1 and top_n = 2 give 61.54 and 38.46.
C5_Witness ==
    /\ ppc = "returned"
    /\ top_n = 2
    /\ [j \in DOMAIN returned |-> returned[j].predicted_score] = <<8, 5, 1>>
    /\ [j \in DOMAIN top_players |-> top_players[j].predicted_probability]
          = <<Num(6154), Num(3846)>>

\* The sum of the percentages given to the top rows, in hundredths.
TopPercentSum ==
    SumSeq([j \in DOMAIN top_players |-> top_players[j].predicted_probability.v])

\* C6 as stated: with positive top-N scores, the rounded percentages of the
\* top_n rows sum to 100.
C6_SumIs100 ==
    (Normalised /\ TopPositive) => TopPercentSum = 10000

\* C6 amended: with positive top-N scores, the rounded percentages sum to 100
\* up to rounding: the sum is within 0.005 times the number of rows
\* normalised of 100.
C6_SumIs100UpToRounding ==
    (Normalised /\ TopPositive) =>
        2 * Abs(TopPercentSum - 10000) <= Len(top_players)

\* C6's case: positive scores whose rounded percentages miss 100 (three equal
\* scores: 33.33 three times).
C6_Witness ==
    /\ ppc = "returned"
    /\ TopPositive
    /\ Len(top_players) = 3
    /\ TopPercentSum = 9999

\* C7: the returned table holds every row of the season once and no other
\* row, each with its predicted_score, in non-increasing order of score; the
\* top_n rows are the first top_n rows of that order.
C7_ReturnedRanking ==
    ppc = "returned" =>
        /\ {returned[j].idx : j \in DOMAIN returned} = AskedRows
        /\ Len(returned) = Cardinality(AskedRows)
        /\ \A j \in DOMAIN returned :
              returned[j].predicted_score = predict(dataframe[returned[j].idx].x)
        /\ \A i, j \in DOMAIN returned :
              i < j => returned[i].predicted_score >= returned[j].predicted_score
        /\ Len(top_players) = (IF top_n < Len(returned) THEN top_n ELSE Len(returned))
        /\ \A j \in DOMAIN top_players :
              /\ top_players[j].idx = returned[j].idx
              /\ top_players[j].predicted_score = returned[j].predicted_score

\* C7's case: a table with rows of two seasons, the season's rows of different
\* scores given in ascending order, more of them than top_n.
C7_Witness ==
    /\ ppc = "returned"
    /\ \E i \in DOMAIN dataframe : dataframe[i].season_year # season
    /\ Len(returned) = 2
    /\ top_n = 1
    /\ returned[1].idx > returned[2].idx
    /\ returned[1].predicted_score > returned[2].predicted_score

\* C8: the ranking sort is stable: two rows of the season with equal
\* predicted_score are returned in their order in the input table.
C8_StableRanking ==
    ppc = "returned" =>
        \A i, j \in DOMAIN returned :
            (i < j /\ returned[i].predicted_score = returned[j].predicted_score)
                => returned[i].idx < returned[j].idx

\* C9: a second call with the same model, season and table returns the same
\* rows in the same order with the same scores, and the calls leave the
\* caller's table as it was given (no column added, no row moved).
C9_SecondCallSame ==
    /\ dataframe = given
    /\ (calls >= 2 /\ ppc = "returned") => returned = first_returned

\* C9's case: two completed calls on a season with rows of different scores
\* given in ascending order, and rows of equal score.
C9_Witness ==
    /\ calls = 2
    /\ ppc = "returned"
    /\ Len(returned) = 3
    /\ returned[1].predicted_score > returned[2].predicted_score
    /\ returned[2].predicted_score = returned[3].predicted_score
    /\ returned[1].idx = 3

\* Rows of the evaluation table in the j-th analysed season.
RowsOfSeason(j) == {i \in DOMAIN data : data[i].season_year = eval_seasons[j]}

\* C10: the winner rank computed for a validation season is the 1-based
\* position of the winner's row in the descending order of the season's
\* scores: a whole number from 1 to the number of rows of the season, also
\* when other rows have the winner's score.
C10_WinnerRankIsPosition ==
    \A j \in DOMAIN ranks :
        /\ ranks[j] % 2 = 0
        /\ 1 <= ranks[j] \div 2
        /\ ranks[j] \div 2 <= Cardinality(RowsOfSeason(j))

\* ------------------------------------------------------ claims: engineering
\* The positions of engineering at which the per-game columns exist.
Averaged == fpc \in {"averaged", "selected", "dropped", "saved"}

\* C11: once engineering has computed the per-game columns, for every row and
\* each of the 17 statistics of stats_to_avg: if the row's game_played is 0
\* the <stat>_per_game cell is the number 0 (not NaN, not infinity), whatever
\* the statistic; if game_played is above 0 the cell is the exact quotient
\* stat / game_played.
C11_PerGameZeroGuard ==
    Averaged =>
        \A i \in DOMAIN df_final : \A k \in DOMAIN stats_to_avg :
            LET stat == clean_rows[i][stats_to_avg[k]]
                gp == clean_rows[i]["game_played"]
                cell == df_final[i][per_game_name(stats_to_avg[k])]
            IN  /\ gp = 0 => cell = Num(0)
                /\ gp > 0 => /\ cell.kind = "frac"
                             /\ cell.d # 0
                             /\ cell.n * gp = stat * cell.d

\* A saved table with a row of no game and a non-zero field_goal_made, whose
\* field_goal_made_per_game is 0.
C11_Witness ==
    /\ fpc = "saved"
    /\ \E i \in DOMAIN df_final :
        /\ clean_rows[i]["game_played"] = 0
        /\ clean_rows[i]["field_goal_made"] = MaxStat
        /\ df_final[i]["field_goal_made_per_game"] = Num(0)

\* ------------------------------------------------------- claims: clean_data
\* Row i of the cleaned table has its attempts of the statistic at zero.
NoAttempt(i, stat) == cleaned[i][attempts_of(stat)] = Num(0)

\* C12: in the cleaned table that clean_data saves, every row whose
\* three_points_attempts is 0 has three_points_percentage 0, whatever the
\* percentage of the raw row was (missing, zero or not zero).
C12_ThreePointGuard ==
    cpc = "saved" =>
        \A i \in DOMAIN cleaned :
            NoAttempt(i, "three_points") =>
                cleaned[i]["three_points_percentage"] = Num(0)

\* A saved table that kept a row read with no three-point attempt and a
\* non-zero raw percentage, and one read with no attempt and a missing one.
C12_Witness ==
    /\ cpc = "saved"
    /\ Len(cleaned) = Len(main_rows)
    /\ \E i, j \in DOMAIN cleaned :
        /\ NoAttempt(i, "three_points") /\ NoAttempt(j, "three_points")
        /\ main_rows[i]["three_points_percentage"] = Num(600)
        /\ main_rows[j]["three_points_percentage"] = NaN
        /\ cleaned[i]["three_points_percentage"] = Num(0)
        /\ cleaned[j]["three_points_percentage"] = Num(0)

\* The raw rows clean_data retains, in the order of the cleaned table.
RetainedRaw == drop_multiple_teams(drop_league_average(main_rows))

\* C13: for each of the four shooting statistics (field goal, three-point,
\* two-point, free throw), a retained row read with 0 attempts and a missing
\* percentage has percentage 0 in the cleaned table that clean_data saves: the
\* guard has set it before the imputer could fill it with the column median.
C13_GuardBeforeImputation ==
    cpc = "saved" =>
        \A i \in DOMAIN cleaned : \A k \in DOMAIN ShootingStats :
            LET stat == ShootingStats[k]
            IN  (/\ RetainedRaw[i][attempts_of(stat)] = Num(0)
                 /\ RetainedRaw[i][percentage_of(stat)] = NaN)
                    => cleaned[i][percentage_of(stat)] = Num(0)

\* The rows of the cleaned table flagged as the winner in season sy.
FlaggedRows(sy) ==
    {i \in DOMAIN cleaned :
        cleaned[i]["season_year"] = Num(sy) /\ cleaned[i]["is_MVP"] = Num(1)}

\* C14: in the cleaned table that clean_data saves, every season for which
\* the scraper found a winner has exactly one row with is_MVP = 1, the raw
\* rows having been flagged by name on every row of the totals page, the
\* aggregate row and the per-team rows of a traded winner included.
C14_OneWinnerRow ==
    cpc = "saved" =>
        \A k \in DOMAIN TotalsSeasons :
            season_mvp[k] # "" => Cardinality(FlaggedRows(TotalsSeasons[k])) = 1

\* --------------------------------------------------- claims: main_dataframe
\* The full name is a key of the registry.
Registered(name) ==
    \E i \in DOMAIN team_name_to_abbr_items : team_name_to_abbr_items[i][1] = name

\* The standings rows of a registered team whose code and season are those of
\* totals row t.
ResolvedEntries(t) ==
    {i \in DOMAIN standings_csv :
        /\ Registered(standings_csv[i]["team"])
        /\ team_name_to_abbr(standings_csv[i]["team"]) = t["team"]
        /\ standings_csv[i]["season_year"] = t["season_year"]}

\* The advanced rows with the player, team and season of totals row t.
AdvancedEntries(t) ==
    {i \in DOMAIN advanced_csv :
        \A k \in advanced_key : advanced_csv[i][k] = t[k]}

\* The rows of the saved table that are totals row t.
OutputRows(t) ==
    {o \in DOMAIN main_saved : \A k \in advanced_key : main_saved[o][k] = t[k]}

\* C15: in the table main_dataframe saves, every totals row whose team and
\* season are those of a resolved standings entry appears exactly once, with
\* conf and win_pct present: no join has duplicated or removed it.
C15_OneRowWithContext ==
    mpc = "saved" =>
        \A i \in DOMAIN totals_csv :
            LET t == totals_csv[i]
            IN  ResolvedEntries(t) # {} =>
                    /\ Cardinality(OutputRows(t)) = 1
                    /\ \A o \in OutputRows(t) :
                          /\ main_saved[o]["conf"] # ""
                          /\ main_saved[o]["win_pct"] # NaN

\* A saved table with a Boston row that carries Boston's conference and
\* win_pct, read beside two standings rows and an advanced row of the player.
C15_Witness ==
    /\ mpc = "saved"
    /\ \E i \in DOMAIN totals_csv :
        LET t == totals_csv[i]
        IN  /\ ResolvedEntries(t) # {}
            /\ (Len(standings_csv) = MaxStandingsRows \/ AdvancedEntries(t) # {})
            /\ \E o \in OutputRows(t) :
                  /\ main_saved[o]["conf"] = "E"
                  /\ main_saved[o]["win_pct"] = Num(600)

\* C16: main_dataframe drops no totals row: every totals row is in the saved
\* table; a row with no standings entry for its team and season has conf and
\* win_pct missing, a row with no advanced row for its player, team and
\* season has its advanced cell missing.
C16_NoRowDropped ==
    mpc = "saved" =>
        \A i \in DOMAIN totals_csv :
            LET t == totals_csv[i]
            IN  /\ OutputRows(t) # {}
                /\ ResolvedEntries(t) = {} =>
                      \A o \in OutputRows(t) :
                          /\ main_saved[o]["conf"] = ""
                          /\ main_saved[o]["win_pct"] = NaN
                /\ AdvancedEntries(t) = {} =>
                      \A o \in OutputRows(t) : main_saved[o]["box_+/-"] = NaN

\* C17: a standings row whose full name is no key of the registry gets the
\* missing value as its team, never a code; in the saved table conf and
\* win_pct are present only on rows whose team and season are those of a
\* resolved standings entry, whose conf and win_pct they are; so the
\* unresolved row's values are on no row, and the rows of its team have none.
C17_UnresolvedStaysNull ==
    /\ mpc \in {"mapped", "augmented", "merged", "selected", "saved"} =>
          \A i \in DOMAIN standings_csv :
              ~Registered(standings_csv[i]["team"]) => df_ranking[i]["team"] = ""
    /\ mpc = "saved" =>
          \A o \in DOMAIN main_saved :
              (main_saved[o]["conf"] # "" \/ main_saved[o]["win_pct"] # NaN) =>
                  \E i \in ResolvedEntries(main_saved[o]) :
                      /\ standings_csv[i]["conf"] = main_saved[o]["conf"]
                      /\ standings_csv[i]["win_pct"] = main_saved[o]["win_pct"]

\* The codes written in the registry.
RegistryCodes ==
    {team_name_to_abbr_items[i][2] : i \in DOMAIN team_name_to_abbr_items}

\* The codes the resolver gives for the full names written in the registry.
ProducedCodes ==
    {team_name_to_abbr(team_name_to_abbr_items[i][1]) :
        i \in DOMAIN team_name_to_abbr_items}

\* C18: once main_dataframe has mapped the standings, every code written in
\* the registry is the code the resolver gives for some full name; among
\* them the two Charlotte Hornets codes CHO and CHH, and NOH, NOK and NOP.
C18_EveryCodeProduced ==
    mpc \in {"mapped", "augmented", "merged", "selected", "saved"} =>
        RegistryCodes \cup {"CHO", "CHH", "NOH", "NOK", "NOP"} \subseteq ProducedCodes

\* -------------------------------------------- claims: engineering, continued
\* The positions of engineering at which team_standing exists.
Ranked == fpc \in {"ranked", "averaged", "selected", "dropped", "saved"}

\* The rows of the cleaned table in the (season_year, conf) group of row i.
GroupOf(i) ==
    {j \in DOMAIN clean_rows :
        /\ clean_rows[j]["season_year"] = clean_rows[i]["season_year"]
        /\ clean_rows[j]["conf"] = clean_rows[i]["conf"]}

\* The table with its rows in the order p.
Permuted(rows, p) == [k \in DOMAIN rows |-> rows[p[k]]]

\* C19: team_standing is the dense descending rank of win_pct within the
\* (season_year, conf) group of the row: the highest win_pct of a group has
\* rank 1, equal win_pct in a group have equal ranks, a larger win_pct has a
\* smaller rank, the rank is 1 + the number of distinct larger win_pct of the
\* group, so the ranks of a group have no gap; and every reordering of the
\* input rows gives each row the same rank.
C19_DenseRank ==
    Ranked =>
        LET rank(i) == df_final[i]["team_standing"]
            wp(i) == clean_rows[i]["win_pct"]
        IN  /\ \A i \in DOMAIN df_final :
                /\ (\A j \in GroupOf(i) : wp(j) <= wp(i)) => rank(i) = 1
                /\ \A j \in GroupOf(i) :
                      /\ wp(j) = wp(i) => rank(j) = rank(i)
                      /\ wp(j) > wp(i) => rank(j) < rank(i)
                /\ rank(i) = 1 + Cardinality({wp(j) : j \in {k \in GroupOf(i) : wp(k) > wp(i)}})
                /\ rank(i) > 1 => \E j \in GroupOf(i) : rank(j) = rank(i) - 1
            /\ fpc = "ranked" =>
                \A p \in Permutations_of(Len(clean_rows)) :
                \A k \in DOMAIN clean_rows :
                    with_team_standing(Permuted(clean_rows, p))[k]["team_standing"]
                        = rank(p[k])

\* A saved table of three rows of one group with win_pct 0.200, 0.200 and
\* 0.100, ranked 1, 1 and 2.
C19_Witness ==
    /\ fpc = "saved"
    /\ Len(clean_rows) = 3
    /\ GroupOf(1) = {1, 2, 3}
    /\ [i \in 1..3 |-> clean_rows[i]["win_pct"]] = <<200, 200, 100>>
    /\ [i \in 1..3 |-> df_final[i]["team_standing"]] = <<1, 1, 2>>

\* C20: the columns of the engineered table are the identity, player-info,
\* shooting, performance, per-game, advanced and meta columns less the 16
\* dropped ones; the feature lists of training, evaluation and prediction
\* are the same list, and its features are those columns less player_name,
\* season_year and is_MVP.
C20_FeatureSchema ==
    fpc \in {"dropped", "saved"} =>
        LET groups == Range(names_cols) \cup Range(player_info)
                        \cup Range(shooting_stats) \cup Range(performance_stats)
                        \cup Range(per_game_stats) \cup Range(advanced_stats)
                        \cup Range(meta_cols)
        IN  /\ Range(dropped_columns) \subseteq groups
            /\ Cardinality(Range(dropped_columns)) = 16
            /\ Range(df_columns) = groups \ Range(dropped_columns)
            /\ fpc = "saved" => engineered[1].columns = df_columns
            /\ features_training = features_evaluation
            /\ features_evaluation = features_prediction
            /\ Range(features_training)
                  = Range(df_columns) \ {"player_name", "season_year", "is_MVP"}

\* A saved engineered table with rows, whose columns hold team_standing and
\* the per-game averages and no longer win_pct.
C20_Witness ==
    /\ fpc = "saved"
    /\ engineered[1].rows # <<>>
    /\ "team_standing" \in Range(engineered[1].columns)
    /\ "total_points_per_game" \in Range(engineered[1].columns)
    /\ "win_pct" \notin Range(engineered[1].columns)


\* ---------------------------------------------- claims: the merge's message
\* C27: in every run of main_dataframe, the message "Main dataframe created
\* successfully." is printed only once the merged CSV file has been written.
C27_MessageAfterWrite == main_printed => mpc = "saved"

\* ------------------------------------------------- claims: stage outputs
\* C21: for any two sequential runs of one stage (merge, clean, engineer,
\* train) into one output directory, the file the first run wrote still
\* exists with the content the first run gave it after the second run.
C21_NoOverwrite ==
    \A i, j \in DOMAIN written :
        (i < j /\ written[i].stage = written[j].stage) =>
            /\ written[i].file \in DOMAIN output_dir
            /\ output_dir[written[i].file] = written[i].content

\* ---------------------------------------------- claims: position encoding
\* On a frame that has rows, a step of the position encoding or of the
\* reordering succeeds, and the reordered frame holds the five indicators
\* of every row.
EncodesPosition ==
    (cpc \in {"encoded", "one_hot"} /\ clean_df # <<>>) =>
        /\ cpc' # "raised"
        /\ cpc' = "ordered" =>
              \A i \in DOMAIN clean_df' : \A k \in DOMAIN Positions :
                  /\ feature_name(Positions[k]) \in DOMAIN clean_df'[i]
                  /\ clean_df'[i][feature_name(Positions[k])] =
                         Num(IF RetainedRaw[i]["position"] = Positions[k]
                             THEN 1 ELSE 0)

\* C22: the position encoding and the reordering of clean_data never raise,
\* whatever the rows the frame has; and the reordered frame holds the five indicators
\* position_C, position_PF, position_PG, position_SF, position_SG on every
\* row, a position that occurs in no row included: 1 in the indicator of the
\* row's own position and 0 in the others, so all five 0 for a row whose
\* position is missing or outside the five.
C22_PositionEncoding == [][EncodesPosition]_vars

\* --------------------------------------------------- claims: imputation
\* C25: in the cleaned table that clean_data saves, conf is 0 or 1 on every
\* row: 0 for a row read with "E", 1 for a row read with "W", and one of the
\* two for a row read with no conference.
C25_ConfBinary ==
    cpc = "saved" =>
        \A i \in DOMAIN cleaned :
            /\ cleaned[i]["conf"] \in {Num(0), Num(1)}
            /\ RetainedRaw[i]["conf"] = "E" => cleaned[i]["conf"] = Num(0)
            /\ RetainedRaw[i]["conf"] = "W" => cleaned[i]["conf"] = Num(1)

\* The imputing step fills every missing cell of a numeric column with the
\* median of the column's present values over all the rows of the frame, and
\* the saving step writes a table with no missing cell in a numeric column.
ImputesGlobalMedian ==
    /\ (cpc = "rescaled" /\ cpc' = "imputed") =>
          \A i \in DOMAIN clean_df : \A c \in DOMAIN clean_df[i] \ TextColumns :
              clean_df'[i][c] =
                  IF clean_df[i][c] = NaN
                  THEN median(present_values(clean_df, c))
                  ELSE clean_df[i][c]
    /\ (cpc = "imputed" /\ cpc' = "saved") =>
          \A i \in DOMAIN cleaned' : \A c \in DOMAIN cleaned'[i] \ TextColumns :
              cleaned'[i][c] # NaN

\* C24: clean_data replaces every missing value left after the zero-attempt
\* guard and the rescaling by the median of the present values of its column
\* over all retained rows, all seasons together, and the table it saves has
\* no missing value in a numeric column.
C24_GlobalMedian == [][ImputesGlobalMedian]_vars

\* The retained raw rows of the training seasons: the table without its
\* validation seasons.
TrainingRaw == SelectSeq(RetainedRaw, LAMBDA r : r["season_year"].v \notin val_set)

\* A saved table where a row of a training season got its win_pct from the
\* imputer, and would have got another value had the rows of the validation
\* seasons not been in the table.
C24_Witness ==
    /\ cpc = "saved"
    /\ \E i \in DOMAIN cleaned :
        /\ cleaned[i]["season_year"].v \notin val_set
        /\ RetainedRaw[i]["win_pct"] = NaN
        /\ present_values(TrainingRaw, "win_pct") # <<>>
        /\ cleaned[i]["win_pct"] = median(present_values(RetainedRaw, "win_pct"))
        /\ cleaned[i]["win_pct"] # median(present_values(TrainingRaw, "win_pct"))

\* -------------------------------------------------- claims: the pipeline
\* The rows of the totals page that clean_data retains, in the order of the
\* cleaned and of the engineered table.
RetainedTotals == drop_multiple_teams(drop_league_average(totals_csv))

\* The standings rows of the conference and season of standings row e.
StandingsGroup(e) ==
    {j \in DOMAIN standings_csv :
        /\ standings_csv[j]["conf"] = standings_csv[e]["conf"]
        /\ standings_csv[j]["season_year"] = standings_csv[e]["season_year"]}

\* The dense descending rank of standings row e by win_pct within its
\* conference and season: 1 + the distinct win_pct of the group above its own.
StandingsRank(e) ==
    1 + Cardinality({standings_csv[j]["win_pct"].v : j \in
                        {k \in StandingsGroup(e) :
                            standings_csv[k]["win_pct"].v
                                > standings_csv[e]["win_pct"].v}})

\* Every team of the group of standings row e has a retained player row.
GroupHasPlayers(e) ==
    \A j \in StandingsGroup(e) :
        \E i \in DOMAIN RetainedTotals : j \in ResolvedEntries(RetainedTotals[i])

\* C26: in the table engineering saves at the end of the pipeline, the
\* team_standing of a player row whose team resolved to a standings entry is
\* the dense descending rank of that entry's win_pct among the standings rows
\* of its conference and season, every team of which has a player row:
\* other player rows of the group do not shift it.
C26_StandingOfTheTeam ==
    fpc = "saved" =>
        \A i \in DOMAIN engineered[1].rows :
            \A e \in ResolvedEntries(RetainedTotals[i]) :
                GroupHasPlayers(e) =>
                    engineered[1].rows[i]["team_standing"] = StandingsRank(e)

\* The step clean_data is at cannot succeed: the file cannot be read, the
\* encoder is given no row, the reordering names an indicator the frame does
\* not have, or the imputer is given a column of missing values only.
CleanFails ==
    \/ cpc = "start" /\ ~main_readable
    \/ cpc = "encoded" /\ clean_df = <<>>
    \/ cpc = "one_hot" /\ \E k \in DOMAIN Positions :
            feature_name(Positions[k]) \notin frame_columns(clean_df)
    \/ cpc = "rescaled" /\ \E c \in frame_columns(clean_df) \ TextColumns :
            \A i \in DOMAIN clean_df : clean_df[i][c] = NaN

\* A stage at a step that cannot succeed raises there and writes no file; a
\* stage that raised takes no further step and still has written no file.
HaltsOnError ==
    /\ (mpc = "start" /\ ~inputs_readable /\ mpc' # mpc) =>
            mpc' = "raised" /\ main_saved' = <<>>
    /\ (CleanFails /\ cpc' # cpc) => cpc' = "raised" /\ cleaned' = <<>>
    /\ (fpc = "start" /\ ~clean_readable /\ fpc' # fpc) =>
            fpc' = "raised" /\ engineered' = <<>>
    /\ mpc = "raised" => mpc' = "raised" /\ main_saved' = <<>>
    /\ cpc = "raised" => cpc' = "raised" /\ cleaned' = <<>>
    /\ fpc = "raised" => fpc' = "raised" /\ engineered' = <<>>

\* C23: in main_dataframe, clean_data and engineering, a step that fails (an
\* input that cannot be read, an expected column that is missing, a
\* transformation that cannot be done) halts the run there: the stage raises
\* to its caller, takes no further step and writes no output file.
C23_HaltsOnError == [][HaltsOnError]_vars

\* clean_data raised at the reordering, on a merged file it could read, for
\* an indicator column that is missing; nothing was written.
C23_Witness ==
    /\ mpc = "saved"
    /\ main_readable
    /\ cpc = "raised"
    /\ clean_df # <<>>
    /\ "position_SG" \notin frame_columns(clean_df)
    /\ cleaned = <<>>
    /\ fpc = "idle"
====
